---- MODULE Spec2Model ----
(***************************************************************************)
(* State-machine model of the governance core of neuroswarm-ai:            *)
(*   - GovernanceCoalition (src/governance/coalition.py): members,         *)
(*     reputation, proposals with three vote ledgers, tally and execute;   *)
(*   - the SDK's AgentSwarm / Proposal (src/sdk/python/agent_swarm_sdk);   *)
(*   - AgentMarketplace (src/agents/agent_marketplace.py): listings with a *)
(*     reputation fed by reviews and performance updates, and rentals;     *)
(*   - BaseAgent.get_active_proposals and ConsensusAgent.analyze_and_decide*)
(*     (src/agents): the agent's reads of the program's Proposal accounts; *)
(*   - EnhancedLearningAgent (src/agents/enhanced_learning_agent.py): the  *)
(*     Q-table, its store and the outcomes it records;                     *)
(*   - BaseAgent.run and BaseAgent.create_proposal: the agents' tasks.     *)
(*                                                                         *)
(* Number representation.  The code computes with Python floats.  The      *)
(* model keeps                                                             *)
(*   - a reputation in half units (100.0 is 200): every reputation the     *)
(*     code produces from the inputs below is a multiple of 0.5;           *)
(*   - a vote weight, a tally total, an approval rate and a threshold in   *)
(*     thousandths (1.0 is 1000), truncated.                               *)
(* The wall clock is the environment's: `now` advances by Tick, and        *)
(* createdAt remembers when a proposal was created (the code stores the    *)
(* deadline it is given and never reads a clock).                          *)
(***************************************************************************)
EXTENDS Integers, Sequences, FiniteSets, TLC

VARIABLES
    members,        \* GovernanceCoalition.members : set of agent ids
    reputation,     \* GovernanceCoalition.reputation : agent id -> half units
    voting_method,  \* GovernanceCoalition.voting_method (the coalition default)
    proposals,      \* GovernanceCoalition.proposals : id -> GovernanceProposal
    sdkProposals,   \* AgentSwarm._proposals : id -> Proposal
    now,            \* the environment's clock
    createdAt,      \* proposal id -> value of the clock when it was created
    lastCall,       \* the call made by the last step
    ret,            \* what that call returned or raised
    lastTally,      \* the dictionary the last tally_votes returned
    steps,          \* number of steps taken so far
    listings,       \* AgentMarketplace.listings : agent id -> listing
    active_rentals, \* AgentMarketplace.active_rentals : key -> rental agreement
    chain,          \* the Proposal accounts of the program, by proposal id
    pc,             \* where the agent is in analyze_and_decide
    total_proposals,  \* swarm_state.total_proposals as get_active_proposals read it
    i,              \* loop index of get_active_proposals / analyze_and_decide
    active_proposals, \* the list get_active_proposals builds and returns
    flagged,        \* the proposals analyze_and_decide logged a voting conflict on
    scanClean,      \* no account changed and no fetch failed since the scan began
    q_table,        \* EnhancedLearningAgent.q_table : state -> row of (action, value)
    q_values,       \* the table q_values of the store : state key -> three values
    outcomes,       \* the table outcomes of the store, in insertion order
    exploration_rate, \* EnhancedLearningAgent.exploration_rate, thousandths
    prediction,     \* what the last predict_vote returned
    loaded,         \* the states whose row in q_table was read from the store
    run_pc,         \* agent -> where its BaseAgent.run is
    run_proposals,  \* agent -> the active_proposals of its current cycle
    run_index,      \* agent -> position in run_proposals
    run_vote,       \* agent -> the vote evaluate_proposal returned
    ballots,        \* the program's vote records : proposal id -> voter -> vote
    create_pc,      \* agent -> where its BaseAgent.create_proposal is
    next_id         \* agent -> the proposal_id its create_proposal read

marketVars == <<listings, active_rentals>>

chainVars == <<chain, pc, total_proposals, i, active_proposals, flagged, scanClean>>

learnVars == <<q_table, q_values, outcomes, exploration_rate, prediction, loaded>>

runVars == <<run_pc, run_proposals, run_index, run_vote, ballots, create_pc,
             next_id>>

vars == <<members, reputation, voting_method, proposals, sdkProposals, now,
          createdAt, lastCall, ret, lastTally, steps, listings, active_rentals, chain, pc,
          total_proposals, i, active_proposals, flagged, scanClean, q_table,
          q_values, outcomes, exploration_rate, prediction, loaded, run_pc,
          run_proposals, run_index, run_vote, ballots, create_pc, next_id>>

coalitionState == <<members, reputation, voting_method, proposals>>

\* everything of the coalition and the SDK swarm
govVars == <<members, reputation, voting_method, proposals, sdkProposals,
             createdAt, lastTally>>

-----------------------------------------------------------------------------
(* Bounds of the model *)

MaxSteps == 4         \* steps of a run of the coalition and marketplace specifications
MaxProposals == 1     \* proposals of a coalition in Spec, SpecExpiry and FairSpec
MaxCreated == 2       \* proposals of a coalition or a swarm in SpecCreate
MaxTime == 2          \* last value of the clock
MaxAccounts == 3      \* Proposal accounts of the program in SpecActive
MaxAgentSteps == 8    \* steps of a run of SpecActive and SpecConflict
MaxFloorSteps == 5    \* steps of a run of SpecFloor
MaxLearnSteps == 3    \* steps of a run of SpecLearn
TrainUpdates == 50    \* outcomes recorded in SpecTrain
MaxTrainSteps == 53   \* steps of a run of SpecTrain
MaxRunSteps == 9      \* steps of a run of SpecRun
MaxRaceSteps == 6     \* steps of a run of SpecRace
MaxOrderSteps == 6    \* steps of a run of SpecOrder
MaxOutcomeSteps == 3  \* steps of a run of SpecOutcome
FreeOutcomes == 1     \* first outcomes of SpecConfidence, failures of any vote
ConfidenceUpdates == 18   \* outcomes recorded in SpecConfidence
MaxConfidenceSteps == 20  \* steps of a run of SpecConfidence

(* Program constants *)

BaselineReputation == 200      \* 100.0, coalition.py line 57
WinDelta == 2                  \* += 1.0, coalition.py lines 214, 217
LoseDelta == 1                 \* -= 0.5, coalition.py lines 220, 223
WeightOne == 1000              \* the weight 1.0 in thousandths
QOne == 10000                  \* the Q-value, reward or confidence 1.0
learning_rate == 100           \* 0.1 in thousandths, enhanced_learning_agent.py line 40
discount_factor == 950         \* 0.95 in thousandths, line 41
InitialExplorationRate == 200  \* 0.2 in thousandths, line 42
SuccessReward == 10000         \* 1.0, line 93
FailureReward == 0 - 5000      \* -0.5, line 93
ExploreConfidence == 3300      \* 0.33, line 199

Agents == {"a1", "a2"}

Methods == {"simple_majority", "supermajority", "unanimous", "quadratic",
            "reputation_weighted"}

Choices == {"approve", "reject", "abstain"}

\* initial_reputation values passed to add_member (150.0)
InitialReputations == {300}

\* required_threshold values, in thousandths (0.5, 0.667)
Thresholds == {500, 667}

\* deadline (time to live) values passed to create_proposal
Deadlines == {0, 1}

\* the methods, description and deadline the general specification creates with
SpecMethods == {{}, {"simple_majority"}, {"quadratic"}}

Descriptions == {"", "Raise max position"}

\* vote_weight: {} is None, {w} is the explicit weight w (thousandths)
VoteWeights == {{}}

\* the same for SpecTally: None and the explicit weight 2.0
TallyVoteWeights == {{}, {2000}}

-----------------------------------------------------------------------------
(* Helpers *)

RECURSIVE SumValues(_)
SumValues(d) ==
    IF DOMAIN d = {} THEN 0
    ELSE LET k == CHOOSE x \in DOMAIN d : TRUE
         IN d[k] + SumValues([x \in DOMAIN d \ {k} |-> d[x]])

DictSet(d, k, v) == [x \in DOMAIN d \cup {k} |-> IF x = k THEN v ELSE d[x]]

DictDel(d, k) == [x \in DOMAIN d \ {k} |-> d[x]]

EmptyDict == [x \in {} |-> 0]

\* str.lower() on the vote strings the model passes
Lower(s) ==
    IF s \in {"APPROVE", "Approve"} THEN "approve"
    ELSE IF s \in {"REJECT", "Reject"} THEN "reject"
    ELSE s

\* floor of the square root of n, n >= 0
RECURSIVE IsqrtIn(_, _, _)
IsqrtIn(n, lo, hi) ==
    IF lo >= hi THEN lo
    ELSE LET mid == (lo + hi + 1) \div 2
         IN IF mid * mid <= n THEN IsqrtIn(n, mid, hi) ELSE IsqrtIn(n, lo, mid - 1)

Isqrt(n) == IsqrtIn(n, 0, 46340)

NoCall == [op |-> "none", pid |-> -1, agent |-> "none", arg |-> "none"]
Call(op, pid, agent, arg) == [op |-> op, pid |-> pid, agent |-> agent, arg |-> arg]

NoRet == [status |-> "none", value |-> -1]
Ok(v) == [status |-> "ok", value |-> v]
Raise(e) == [status |-> e, value |-> -1]

NoPrediction == [action |-> "none", confidence |-> -1]

NoTally == [proposal_id |-> -1, total_for |-> 0, total_against |-> 0,
            approval_rate |-> 0, required_threshold |-> 0, passed |-> FALSE,
            voting_method |-> "none"]

-----------------------------------------------------------------------------
(* GovernanceCoalition *)

Init ==
    /\ members \in SUBSET Agents
    /\ reputation = [m \in members |-> BaselineReputation]
    /\ voting_method = "reputation_weighted"
    /\ proposals = [x \in {} |-> 0]
    /\ sdkProposals = [x \in {} |-> 0]
    /\ now = 0
    /\ createdAt = [x \in {} |-> 0]
    /\ lastCall = NoCall
    /\ ret = NoRet
    /\ lastTally = NoTally
    /\ steps = 0
    /\ listings = [x \in {} |-> 0]
    /\ active_rentals = [x \in {} |-> 0]
    /\ chain = <<>>
    /\ pc = "idle"
    /\ total_proposals = 0
    /\ i = 0
    /\ active_proposals = <<>>
    /\ flagged = {}
    /\ scanClean = TRUE
    /\ q_table = [x \in {} |-> 0]
    /\ q_values = [x \in {} |-> 0]
    /\ outcomes = <<>>
    /\ exploration_rate = InitialExplorationRate
    /\ prediction = NoPrediction
    /\ loaded = {}
    /\ run_pc = [a \in Agents |-> "idle"]
    /\ run_proposals = [a \in Agents |-> <<>>]
    /\ run_index = [a \in Agents |-> 0]
    /\ run_vote = [a \in Agents |-> "none"]
    /\ ballots = <<>>
    /\ create_pc = [a \in Agents |-> "idle"]
    /\ next_id = [a \in Agents |-> -1]

add_member(agent_id, initial_reputation) ==
    /\ lastCall' = Call("add_member", -1, agent_id, "none")
    /\ ret' = Ok(-1)
    /\ IF agent_id \notin members
       THEN /\ members' = members \cup {agent_id}
            /\ reputation' = DictSet(reputation, agent_id, initial_reputation)
       ELSE UNCHANGED <<members, reputation>>
    /\ UNCHANGED <<voting_method, proposals, sdkProposals, now, createdAt, lastTally>>

\* remove_member without del self.reputation[agent_id]
remove_member_keeping(agent_id) ==
    /\ lastCall' = Call("remove_member", -1, agent_id, "none")
    /\ ret' = Ok(-1)
    /\ members' = members \ {agent_id}
    /\ UNCHANGED <<reputation, voting_method, proposals, sdkProposals, now,
                   createdAt, lastTally>>

remove_member(agent_id) ==
    /\ lastCall' = Call("remove_member", -1, agent_id, "none")
    /\ ret' = Ok(-1)
    /\ IF agent_id \in members
       THEN /\ members' = members \ {agent_id}
            /\ reputation' = DictDel(reputation, agent_id)
       ELSE UNCHANGED <<members, reputation>>
    /\ UNCHANGED <<voting_method, proposals, sdkProposals, now, createdAt, lastTally>>

NewProposal(proposal_id, proposer, description, method, required_threshold, deadline) ==
    [id |-> proposal_id,
     description |-> description,
     proposer |-> proposer,
     voting_method |-> method,
     votes_for |-> EmptyDict,
     votes_against |-> EmptyDict,
     votes_abstain |-> EmptyDict,
     required_threshold |-> required_threshold,
     deadline |-> deadline,
     executed |-> FALSE]

\* next_proposal_id with the off-by-one of an id taken from the last proposal's id
next_proposal_id_reuse ==
    IF DOMAIN proposals = {} THEN 0 ELSE Cardinality(DOMAIN proposals) - 1

\* proposal_id = len(self.proposals)
next_proposal_id == Cardinality(DOMAIN proposals)

\* create_error without the membership check
create_error_nocheck(proposer, description, deadline) == "ok"

\* the checks create_proposal makes before it builds the proposal
create_error(proposer, description, deadline) ==
    IF proposer \notin members THEN "ValueError" ELSE "ok"

\* method_opt: {} is None (the coalition's voting_method), {m} is the method m.
\* title and proposal_type are stored and never read; the model leaves them out.
create_proposal(proposer, description, method_opt, required_threshold, deadline) ==
    /\ lastCall' = Call("create_proposal", -1, proposer, description)
    /\ LET err == create_error(proposer, description, deadline)
           proposal_id == next_proposal_id
           method == IF method_opt = {} THEN voting_method
                     ELSE CHOOSE m \in method_opt : TRUE
       IN IF err # "ok"
          THEN /\ ret' = Raise(err)
               /\ UNCHANGED <<proposals, createdAt>>
          ELSE /\ proposals' = DictSet(proposals, proposal_id,
                       NewProposal(proposal_id, proposer, description, method,
                                   required_threshold, deadline))
               /\ createdAt' = DictSet(createdAt, proposal_id, now)
               /\ ret' = Ok(proposal_id)
    /\ UNCHANGED <<members, reputation, voting_method, sdkProposals, now, lastTally>>

\* calculate_vote_weight without the factor len(self.members)
calculate_vote_weight_unscaled(voter, method) ==
    IF method \in {"simple_majority", "supermajority", "unanimous"} THEN WeightOne
    ELSE IF method = "reputation_weighted"
    THEN (reputation[voter] * WeightOne) \div SumValues(reputation)
    ELSE IF method = "quadratic"
    THEN Isqrt(reputation[voter] * ((WeightOne * WeightOne) \div 2))
    ELSE WeightOne

\* calculate_vote_weight without the QUADRATIC branch: the method falls through
\* to the final return 1.0
calculate_vote_weight_noquadratic(voter, method) ==
    IF method \in {"simple_majority", "supermajority", "unanimous"} THEN WeightOne
    ELSE IF method = "reputation_weighted"
    THEN (reputation[voter] * Cardinality(members) * WeightOne)
            \div SumValues(reputation)
    ELSE WeightOne

\* Weight of a vote, in thousandths.  Python evaluates
\* reputation[voter] / total_reputation * len(members); the model computes the
\* quotient once and truncates it.  The square root is truncated too.
calculate_vote_weight(voter, method) ==
    IF method \in {"simple_majority", "supermajority", "unanimous"} THEN WeightOne
    ELSE IF method = "reputation_weighted"
    THEN LET total_reputation == SumValues(reputation)
         IN (reputation[voter] * Cardinality(members) * WeightOne) \div total_reputation
    ELSE IF method = "quadratic"
    THEN Isqrt(reputation[voter] * ((WeightOne * WeightOne) \div 2))
    ELSE WeightOne

\* the checks vote makes before it records anything
vote_error(proposal_id, voter) ==
    IF proposal_id \notin DOMAIN proposals THEN "ValueError"
    ELSE IF voter \notin members THEN "ValueError"
    ELSE "ok"

\* record_vote replacing the whole ledger of the choice by the one vote
record_vote_exclusive(proposal, voter, choice, vote_weight) ==
    IF Lower(choice) = "approve"
    THEN [proposal EXCEPT !.votes_for = DictSet(EmptyDict, voter, vote_weight)]
    ELSE IF Lower(choice) = "reject"
    THEN [proposal EXCEPT !.votes_against = DictSet(EmptyDict, voter, vote_weight)]
    ELSE [proposal EXCEPT !.votes_abstain = DictSet(EmptyDict, voter, vote_weight)]

\* the proposal after `voter`'s vote is recorded in the ledger of its choice
record_vote(proposal, voter, choice, vote_weight) ==
    IF Lower(choice) = "approve"
    THEN [proposal EXCEPT !.votes_for = DictSet(@, voter, vote_weight)]
    ELSE IF Lower(choice) = "reject"
    THEN [proposal EXCEPT !.votes_against = DictSet(@, voter, vote_weight)]
    ELSE [proposal EXCEPT !.votes_abstain = DictSet(@, voter, vote_weight)]

vote(proposal_id, voter, choice, weight_opt) ==
    /\ lastCall' = Call("vote", proposal_id, voter, choice)
    /\ LET err == vote_error(proposal_id, voter)
       IN IF err # "ok"
          THEN /\ ret' = Raise(err)
               /\ UNCHANGED proposals
          ELSE LET proposal == proposals[proposal_id]
               IN IF /\ weight_opt = {}
                     /\ proposal.voting_method = "reputation_weighted"
                     /\ SumValues(reputation) = 0
                  THEN /\ ret' = Raise("ZeroDivisionError")
                       /\ UNCHANGED proposals
                  ELSE LET vote_weight ==
                               IF weight_opt = {}
                               THEN calculate_vote_weight(voter, proposal.voting_method)
                               ELSE CHOOSE w \in weight_opt : TRUE
                       IN /\ proposals' = [proposals EXCEPT ![proposal_id] =
                                 record_vote(@, voter, choice, vote_weight)]
                          /\ ret' = Ok(-1)
    /\ UNCHANGED <<members, reputation, voting_method, sdkProposals, now, createdAt,
                   lastTally>>

\* tally with the abstain weights counted in the denominator
tally_with_abstain(proposal) ==
    LET total_for == SumValues(proposal.votes_for)
        total_against == SumValues(proposal.votes_against)
        total_votes == total_for + total_against + SumValues(proposal.votes_abstain)
        approval_rate == IF total_votes = 0 THEN 0
                         ELSE (total_for * WeightOne) \div total_votes
    IN [proposal_id |-> proposal.id,
        total_for |-> total_for,
        total_against |-> total_against,
        approval_rate |-> approval_rate,
        required_threshold |-> proposal.required_threshold,
        passed |-> (approval_rate >= proposal.required_threshold),
        voting_method |-> proposal.voting_method]

\* the dictionary tally_votes returns for a proposal
tally(proposal) ==
    LET total_for == SumValues(proposal.votes_for)
        total_against == SumValues(proposal.votes_against)
        total_votes == total_for + total_against
        approval_rate == IF total_votes = 0 THEN 0
                         ELSE (total_for * WeightOne) \div total_votes
    IN [proposal_id |-> proposal.id,
        total_for |-> total_for,
        total_against |-> total_against,
        approval_rate |-> approval_rate,
        required_threshold |-> proposal.required_threshold,
        passed |-> (approval_rate >= proposal.required_threshold),
        voting_method |-> proposal.voting_method]

tally_votes(proposal_id) ==
    /\ lastCall' = Call("tally_votes", proposal_id, "none", "none")
    /\ IF proposal_id \notin DOMAIN proposals
       THEN /\ ret' = Raise("ValueError")
            /\ UNCHANGED lastTally
       ELSE /\ lastTally' = tally(proposals[proposal_id])
            /\ ret' = Ok(-1)
    /\ UNCHANGED <<members, reputation, voting_method, proposals, sdkProposals, now,
                   createdAt>>

\* the reputation dictionary after _update_reputation(proposal_id, outcome)
update_reputation(proposal, outcome) ==
    [voter \in DOMAIN reputation |->
        IF voter \notin members THEN reputation[voter]
        ELSE IF voter \in DOMAIN proposal.votes_for /\ outcome
        THEN reputation[voter] + WinDelta
        ELSE IF voter \in DOMAIN proposal.votes_against /\ ~outcome
        THEN reputation[voter] + WinDelta
        ELSE IF voter \in DOMAIN proposal.votes_for /\ ~outcome
        THEN reputation[voter] - LoseDelta
        ELSE IF voter \in DOMAIN proposal.votes_against /\ outcome
        THEN reputation[voter] - LoseDelta
        ELSE reputation[voter]]

\* execute_decision without the check of the executed flag
execute_decision_norepeat(proposal) ==
    IF ~tally(proposal).passed THEN "failed" ELSE "execute"

\* what execute_proposal does once the id is known:
\* "failed" (did not pass), "already" (already executed) or "execute"
execute_decision(proposal) ==
    IF ~tally(proposal).passed THEN "failed"
    ELSE IF proposal.executed THEN "already"
    ELSE "execute"

\* execute_proposal without the test of the tally: every proposal that is not
\* executed yet is executed
execute_proposal_unchecked(proposal_id) ==
    /\ lastCall' = Call("execute_proposal", proposal_id, "none", "none")
    /\ IF proposal_id \notin DOMAIN proposals
       THEN /\ ret' = Raise("ValueError")
            /\ UNCHANGED <<proposals, reputation>>
       ELSE LET proposal == proposals[proposal_id]
            IN IF ~proposal.executed
               THEN /\ proposals' = [proposals EXCEPT ![proposal_id].executed = TRUE]
                    /\ reputation' = update_reputation(proposal, TRUE)
                    /\ ret' = Ok(1)
               ELSE /\ ret' = Ok(0)
                    /\ UNCHANGED <<proposals, reputation>>
    /\ UNCHANGED <<members, voting_method, sdkProposals, now, createdAt, lastTally>>

execute_proposal(proposal_id) ==
    /\ lastCall' = Call("execute_proposal", proposal_id, "none", "none")
    /\ IF proposal_id \notin DOMAIN proposals
       THEN /\ ret' = Raise("ValueError")
            /\ UNCHANGED <<proposals, reputation>>
       ELSE LET proposal == proposals[proposal_id]
                decision == execute_decision(proposal)
            IN IF decision = "execute"
               THEN /\ proposals' = [proposals EXCEPT ![proposal_id].executed = TRUE]
                    /\ reputation' = update_reputation(proposal, tally(proposal).passed)
                    /\ ret' = Ok(1)
               ELSE /\ ret' = Ok(0)
                    /\ UNCHANGED <<proposals, reputation>>
    /\ UNCHANGED <<members, voting_method, sdkProposals, now, createdAt, lastTally>>

\* the environment's clock advances
Tick ==
    /\ now < MaxTime
    /\ now' = now + 1
    /\ lastCall' = Call("tick", -1, "none", "none")
    /\ ret' = NoRet
    /\ UNCHANGED <<members, reputation, voting_method, proposals, sdkProposals,
                   createdAt, lastTally>>

-----------------------------------------------------------------------------
(* SDK: AgentSwarm and Proposal *)

NewSdkProposal(proposal_id, proposer, description) ==
    [id |-> proposal_id,
     proposer |-> proposer,
     description |-> description,
     votes |-> EmptyDict,
     executed |-> FALSE]

\* proposal_id = len(self._proposals)
sdk_next_proposal_id == Cardinality(DOMAIN sdkProposals)

\* AgentSwarm.create_proposal; proposal_type and data are stored and never read
sdk_create_proposal(agent, description) ==
    /\ lastCall' = Call("sdk_create_proposal", -1, agent, description)
    /\ LET proposal_id == sdk_next_proposal_id
       IN /\ sdkProposals' = DictSet(sdkProposals, proposal_id,
                 NewSdkProposal(proposal_id, agent, description))
          /\ ret' = Ok(proposal_id)
    /\ UNCHANGED <<members, reputation, voting_method, proposals, now, createdAt,
                   lastTally>>

\* Proposal.record_vote
sdk_record_vote(proposal, voter, choice) ==
    [proposal EXCEPT !.votes = DictSet(@, voter, choice)]

\* AgentSwarm.vote
sdk_vote(agent, proposal_id, choice) ==
    /\ lastCall' = Call("sdk_vote", proposal_id, agent, choice)
    /\ IF proposal_id \notin DOMAIN sdkProposals
       THEN /\ ret' = Raise("ValueError")
            /\ UNCHANGED sdkProposals
       ELSE /\ sdkProposals' = [sdkProposals EXCEPT ![proposal_id] =
                  sdk_record_vote(@, agent, choice)]
            /\ ret' = Ok(-1)
    /\ UNCHANGED <<members, reputation, voting_method, proposals, now, createdAt,
                   lastTally>>

\* sum(1 for v in votes.values() if v == choice)
sdk_count(votes, choice) == Cardinality({voter \in DOMAIN votes : votes[voter] = choice})

\* get_status that takes a proposal nobody approved or rejected for pending
get_status_unopposed_pending(proposal) ==
    IF proposal.executed THEN "executed"
    ELSE IF sdk_count(proposal.votes, "approve") = 0
            /\ sdk_count(proposal.votes, "reject") = 0
    THEN "pending"
    ELSE IF sdk_count(proposal.votes, "approve") > sdk_count(proposal.votes, "reject")
    THEN "approved"
    ELSE IF sdk_count(proposal.votes, "reject") > sdk_count(proposal.votes, "approve")
    THEN "rejected"
    ELSE "tied"

\* Proposal.get_status
get_status(proposal) ==
    IF proposal.executed THEN "executed"
    ELSE IF DOMAIN proposal.votes = {} THEN "pending"
    ELSE IF sdk_count(proposal.votes, "approve") > sdk_count(proposal.votes, "reject")
    THEN "approved"
    ELSE IF sdk_count(proposal.votes, "reject") > sdk_count(proposal.votes, "approve")
    THEN "rejected"
    ELSE "tied"

\* the caller, who holds the Proposal create_proposal returned, asks its status
sdk_get_status(proposal_id) ==
    /\ proposal_id \in DOMAIN sdkProposals
    /\ lastCall' = Call("get_status", proposal_id, "none", "none")
    /\ ret' = Ok(get_status(sdkProposals[proposal_id]))
    /\ UNCHANGED <<members, reputation, voting_method, proposals, sdkProposals, now,
                   createdAt, lastTally>>

\* the caller assigns proposal.executed = True (no method of the SDK does)
sdk_set_executed(proposal_id) ==
    /\ proposal_id \in DOMAIN sdkProposals
    /\ lastCall' = Call("set_executed", proposal_id, "none", "none")
    /\ ret' = NoRet
    /\ sdkProposals' = [sdkProposals EXCEPT ![proposal_id].executed = TRUE]
    /\ UNCHANGED <<members, reputation, voting_method, proposals, now, createdAt,
                   lastTally>>

-----------------------------------------------------------------------------
(* AgentMarketplace: listings with a reputation fed by reviews and by the      *)
(* outcomes of the agent's proposals.  Of AgentPerformanceMetrics the model    *)
(* keeps the counters and the reputation; the profit, the average ROI, the     *)
(* consistency score, the rating and the leaderboard are derived from these    *)
(* and never feed the reputation.                                              *)

MarketBaseline == 1000         \* reputation=1000, agent_marketplace.py line 82
MinStars == 1                  \* max(1, ...), agent_marketplace.py line 310
MaxStars == 5                  \* min(5, rating), agent_marketplace.py line 310
NeutralStars == 3              \* (rating - 3), agent_marketplace.py line 318
ReviewFactor == 5              \* * 5, agent_marketplace.py line 318
SuccessGain == 10              \* += 10 + ..., agent_marketplace.py line 247
RoiFactor == 5                 \* int(roi * 5), agent_marketplace.py line 247
FailureLoss == 5               \* -= 5, agent_marketplace.py line 249
MinRentalPeriod == 1           \* 'min_rental_period': 1, agent_marketplace.py line 97
MaxRentalPeriod == 30          \* 'max_rental_period': 30, agent_marketplace.py line 98

\* rating values a reviewer passes, and roi values in tenths (0.0, 0.3)
Ratings == {0, 1, 3, 5, 7}

Rois == {0, 3}

Max(a, b) == IF a >= b THEN a ELSE b

Min(a, b) == IF a <= b THEN a ELSE b

\* int(x / d): the quotient truncated towards zero
TruncDiv(x, d) == IF x >= 0 THEN x \div d ELSE 0 - ((0 - x) \div d)

\* the rental_price list_agent is given (SOL per day); rental_terms is left
\* to its default, a period of 1 to 30 days
ListedPrice == 2

list_agent(agent_id) ==
    /\ lastCall' = Call("list_agent", -1, agent_id, "none")
    /\ ret' = Ok(-1)
    /\ listings' = DictSet(listings, agent_id,
          [total_proposals |-> 0, successful_proposals |-> 0,
           reputation |-> MarketBaseline, reviews |-> <<>>,
           rental_price |-> ListedPrice, times_rented |-> 0,
           total_earnings |-> 0, is_available |-> TRUE])
    /\ UNCHANGED <<govVars, now, chainVars, active_rentals>>

\* reputation_change = (rating - 3) * 5
reputation_change(rating) == (rating - NeutralStars) * ReviewFactor

\* reviewer_pubkey, comment and timestamp are stored and never read
add_review(agent_id, rating) ==
    /\ lastCall' = Call("add_review", rating, agent_id, "none")
    /\ IF agent_id \notin DOMAIN listings
       THEN /\ ret' = Raise("ValueError")
            /\ UNCHANGED listings
       ELSE /\ ret' = Ok(-1)
            /\ listings' = [listings EXCEPT
                  ![agent_id].reviews =
                      Append(@, Max(MinStars, Min(MaxStars, rating))),
                  ![agent_id].reputation = @ + reputation_change(rating)]
    /\ UNCHANGED <<govVars, now, chainVars, active_rentals>>

\* roi is in tenths: int(roi * 5) is roi * 5 / 10 truncated
update_agent_performance(agent_id, proposal_success, roi) ==
    /\ lastCall' = Call("update_agent_performance", roi, agent_id,
                        IF proposal_success THEN "success" ELSE "failure")
    /\ ret' = Ok(-1)
    /\ IF agent_id \notin DOMAIN listings
       THEN UNCHANGED listings
       ELSE listings' = [listings EXCEPT
               ![agent_id].total_proposals = @ + 1,
               ![agent_id].successful_proposals =
                   IF proposal_success THEN @ + 1 ELSE @,
               ![agent_id].reputation =
                   IF proposal_success
                   THEN @ + SuccessGain + TruncDiv(roi * RoiFactor, 10)
                   ELSE @ - FailureLoss]
    /\ UNCHANGED <<govVars, now, chainVars, active_rentals>>

\* the check rent_agent fails on, or "ok"
rent_error(agent_id, rental_period, payment_amount) ==
    IF agent_id \notin DOMAIN listings THEN "ValueError"
    ELSE IF ~listings[agent_id].is_available THEN "ValueError"
    ELSE IF rental_period < MinRentalPeriod THEN "ValueError"
    ELSE IF rental_period > MaxRentalPeriod THEN "ValueError"
    ELSE IF payment_amount < listings[agent_id].rental_price * rental_period
    THEN "ValueError"
    ELSE "ok"

\* f"{agent_id}_{renter_pubkey}", line 205
rental_key(agent_id, renter_pubkey) == agent_id \o "_" \o renter_pubkey

\* rent_agent: the rental agreement is stored under the key of the agent and
\* the renter, and the listing is no longer available
rent_agent(agent_id, renter_pubkey, rental_period, payment_amount) ==
    /\ lastCall' = Call("rent_agent", rental_period, agent_id, renter_pubkey)
    /\ LET err == rent_error(agent_id, rental_period, payment_amount)
       IN IF err # "ok"
          THEN /\ ret' = Raise(err)
               /\ UNCHANGED <<listings, active_rentals>>
          ELSE /\ active_rentals' = DictSet(active_rentals,
                      rental_key(agent_id, renter_pubkey),
                      [agent_id |-> agent_id, renter_pubkey |-> renter_pubkey,
                       rental_period |-> rental_period,
                       payment_amount |-> payment_amount, status |-> "active"])
               /\ listings' = [listings EXCEPT
                      ![agent_id].is_available = FALSE,
                      ![agent_id].times_rented = @ + 1,
                      ![agent_id].total_earnings = @ + payment_amount]
               /\ ret' = Ok(-1)
    /\ UNCHANGED <<govVars, now, chainVars>>

-----------------------------------------------------------------------------
(* BaseAgent.get_active_proposals and ConsensusAgent.analyze_and_decide.       *)
(* The agent reads the program's accounts one fetch at a time (every fetch is  *)
(* an await), so the accounts and the clock can change between two fetches.    *)

\* a Proposal account as get_proposal returns it (ProposalData); the fields the
\* two methods read
Account(expires_at, votes) ==
    [expires_at |-> expires_at,
     executed |-> FALSE,
     votes_for |-> votes[1],
     votes_against |-> votes[2],
     votes_abstain |-> votes[3]]

\* the vote counts of a proposal nobody has voted on
NoVoteCounts == <<0, 0, 0>>

\* the account of proposal id k (ids start at 0)
AccountOf(k) == chain[k + 1]

\* the test of get_active_proposals with the expiry compared by <=
is_active_inclusive(proposal, time) ==
    ~proposal.executed /\ time <= proposal.expires_at

\* the test get_active_proposals makes on a fetched proposal
is_active(proposal, time) ==
    ~proposal.executed /\ time < proposal.expires_at

\* get_active_proposals is entered, by a caller of its own ("get_active_proposals")
\* or inside analyze_and_decide ("analyze_scan"); fetched = FALSE is a failed
\* fetch of SwarmState: the error is logged and the method returns []
get_active_proposals_begin(caller, fetched) ==
    /\ pc = "idle"
    /\ lastCall' = Call(caller, -1, "none", "begin")
    /\ active_proposals' = <<>>
    /\ i' = 0
    /\ IF fetched
       THEN /\ total_proposals' = Len(chain)
            /\ pc' = caller
            /\ scanClean' = TRUE
            /\ ret' = NoRet
       ELSE /\ total_proposals' = 0
            /\ pc' = IF caller = "analyze_scan" THEN "analyze_loop" ELSE "idle"
            /\ scanClean' = FALSE
            /\ ret' = Raise("logged")
    /\ UNCHANGED <<govVars, now, marketVars, chain, flagged>>

\* one turn of the loop of get_active_proposals: fetch proposal i and keep its
\* id when it is not executed and not expired; a failed fetch gives None and
\* the proposal is skipped
get_active_proposals_step(fetched) ==
    /\ pc \in {"get_active_proposals", "analyze_scan"}
    /\ i < total_proposals
    /\ lastCall' = Call(pc, i, "none", "fetch")
    /\ ret' = IF fetched THEN NoRet ELSE Raise("logged")
    /\ active_proposals' =
          IF fetched /\ is_active(AccountOf(i), now)
          THEN Append(active_proposals, i)
          ELSE active_proposals
    /\ i' = i + 1
    /\ scanClean' = (scanClean /\ fetched)
    /\ UNCHANGED <<govVars, now, marketVars, chain, pc, total_proposals, flagged>>

\* get_active_proposals returns active_proposals
get_active_proposals_return ==
    /\ pc \in {"get_active_proposals", "analyze_scan"}
    /\ i = total_proposals
    /\ lastCall' = Call(pc, -1, "none", "return")
    /\ ret' = Ok(Len(active_proposals))
    /\ pc' = IF pc = "analyze_scan" THEN "analyze_loop" ELSE "idle"
    /\ i' = 0
    /\ UNCHANGED <<govVars, now, marketVars, chain, total_proposals,
                   active_proposals, flagged, scanClean>>

conflict_threshold == 400      \* 0.4, consensus_agent.py line 45

\* |x|
Abs(x) == IF x < 0 THEN 0 - x ELSE x

\* The conflict test of analyze_and_decide on a fetched proposal:
\* total_votes > 0 and abs(for_ratio - against_ratio) < conflict_threshold,
\* the two ratios being votes / total_votes.  The model compares the exact
\* quotients, cross-multiplied.
conflict_detected(proposal) ==
    LET total_votes == proposal.votes_for + proposal.votes_against
                          + proposal.votes_abstain
    IN /\ total_votes > 0
       /\ Abs(proposal.votes_for - proposal.votes_against) * WeightOne
             < conflict_threshold * total_votes

\* a turn of the loop of analyze_and_decide that resolves the conflict it
\* finds: the proposal is executed
analyze_and_decide_step_resolving(fetched) ==
    /\ pc = "analyze_loop"
    /\ i < Len(active_proposals)
    /\ lastCall' = Call("analyze_and_decide", active_proposals[i + 1], "none", "fetch")
    /\ ret' = IF fetched THEN NoRet ELSE Raise("logged")
    /\ flagged' =
          IF fetched /\ conflict_detected(AccountOf(active_proposals[i + 1]))
          THEN flagged \cup {active_proposals[i + 1]}
          ELSE flagged
    /\ chain' =
          IF fetched /\ conflict_detected(AccountOf(active_proposals[i + 1]))
          THEN [chain EXCEPT ![active_proposals[i + 1] + 1].executed = TRUE]
          ELSE chain
    /\ i' = i + 1
    /\ UNCHANGED <<govVars, now, marketVars, pc, total_proposals,
                   active_proposals, scanClean>>

\* one turn of the loop of analyze_and_decide: fetch the listed proposal again
\* and log a conflict when the vote is close
analyze_and_decide_step(fetched) ==
    /\ pc = "analyze_loop"
    /\ i < Len(active_proposals)
    /\ lastCall' = Call("analyze_and_decide", active_proposals[i + 1], "none", "fetch")
    /\ ret' = IF fetched THEN NoRet ELSE Raise("logged")
    /\ flagged' =
          IF fetched /\ conflict_detected(AccountOf(active_proposals[i + 1]))
          THEN flagged \cup {active_proposals[i + 1]}
          ELSE flagged
    /\ i' = i + 1
    /\ UNCHANGED <<govVars, now, marketVars, chain, pc, total_proposals,
                   active_proposals, scanClean>>

\* analyze_and_decide returns {"action": "monitor", "active_proposals": n, ...}
analyze_and_decide_return ==
    /\ pc = "analyze_loop"
    /\ i = Len(active_proposals)
    /\ lastCall' = Call("analyze_and_decide", -1, "none", "return")
    /\ ret' = Ok(Len(active_proposals))
    /\ pc' = "idle"
    /\ i' = 0
    /\ UNCHANGED <<govVars, now, marketVars, chain, total_proposals,
                   active_proposals, flagged, scanClean>>

(* The program that owns the accounts: other agents' transactions. *)

\* a proposal is created: the program appends an account
ProgramCreate(expires_at, votes) ==
    /\ chain' = Append(chain, Account(expires_at, votes))
    /\ lastCall' = Call("program_create", Len(chain), "none", "none")
    /\ ret' = NoRet
    /\ scanClean' = FALSE
    /\ UNCHANGED <<govVars, now, marketVars, pc, total_proposals, i,
                   active_proposals, flagged>>

\* a proposal is executed by the program
ProgramExecute(k) ==
    /\ k < Len(chain)
    /\ ~AccountOf(k).executed
    /\ chain' = [chain EXCEPT ![k + 1].executed = TRUE]
    /\ lastCall' = Call("program_execute", k, "none", "none")
    /\ ret' = NoRet
    /\ scanClean' = FALSE
    /\ UNCHANGED <<govVars, now, marketVars, pc, total_proposals, i,
                   active_proposals, flagged>>

\* the clock advances while the agent runs
ProgramTick ==
    /\ Tick
    /\ scanClean' = FALSE
    /\ UNCHANGED <<marketVars, chain, pc, total_proposals, i, active_proposals,
                   flagged>>

-----------------------------------------------------------------------------
(* EnhancedLearningAgent: tabular Q-learning over the states               *)
(* (market_condition, proposal_type, risk_level), with the table q_values   *)
(* and the table outcomes of the SQLite store.  A Q-value, a reward and a   *)
(* confidence are kept in ten-thousandths (1.0 is 10000), truncated.  A row *)
(* of q_table is a Python dict: the model keeps it as the sequence of its   *)
(* (key, value) items in insertion order, which is the order max() visits.  *)

\* the dict literal of lines 125-129 and 203-207
ZeroRow == << <<"approve", 0>>, <<"reject", 0>>, <<"abstain", 0>> >>

RowKeys(row) == {row[j][1] : j \in 1 .. Len(row)}

\* row[key]
RowGet(row, key) == row[CHOOSE j \in 1 .. Len(row) : row[j][1] = key][2]

\* row[key] = value, for a key the dict has: the item keeps its place
RowSet(row, key, value) ==
    [j \in 1 .. Len(row) |-> IF row[j][1] = key THEN <<key, value>> ELSE row[j]]

\* max(row.values())
RowMax(row) ==
    CHOOSE m \in {row[j][2] : j \in 1 .. Len(row)} :
        \A j \in 1 .. Len(row) : row[j][2] <= m

RECURSIVE RowSumFrom(_, _)
RowSumFrom(row, j) == IF j > Len(row) THEN 0 ELSE row[j][2] + RowSumFrom(row, j + 1)

\* sum(row.values())
RowSum(row) == RowSumFrom(row, 1)

\* max(row, key=row.get) keeping the last of the keys with the largest value
ArgMax_last(row) ==
    row[CHOOSE j \in 1 .. Len(row) :
            /\ row[j][2] = RowMax(row)
            /\ \A h \in j + 1 .. Len(row) : row[h][2] < RowMax(row)][1]

\* max(row, key=row.get): the first key, in the dict's order, whose value is
\* the largest
ArgMax(row) ==
    row[CHOOSE j \in 1 .. Len(row) :
            /\ row[j][2] = RowMax(row)
            /\ \A h \in 1 .. j - 1 : row[h][2] < RowMax(row)][1]

\* the values the model passes for the three components of a state
MarketConditions == {"normal", "bullish"}
ProposalTypes == {"trade", "rebalance"}
RiskLevels == {"medium", "low"}

\* "|".join(state), line 149
state_key(state) == state[1] \o "|" \o state[2] \o "|" \o state[3]

\* tuple(state_key.split("|")), line 177, for keys made of the components above
split_state_key(key) ==
    CHOOSE state \in MarketConditions \X ProposalTypes \X RiskLevels :
        state_key(state) = key

\* reward = 1.0 if success else -0.5 with the two values exchanged
reward_of_inverted(success) == IF success THEN FailureReward ELSE SuccessReward

\* reward = 1.0 if success else -0.5, line 93
reward_of(success) == IF success THEN SuccessReward ELSE FailureReward

\* the Q-learning rule without the discounted future value
new_q_nofuture(current_q, max_future_q, reward) ==
    current_q + TruncDiv(learning_rate * (reward - current_q), WeightOne)

\* new_q of lines 135-137
new_q(current_q, max_future_q, reward) ==
    current_q
      + TruncDiv(learning_rate
                   * (reward + TruncDiv(discount_factor * max_future_q, WeightOne)
                        - current_q),
                 WeightOne)

\* q_table after the lazy initialisation of lines 124-129 and 202-207
with_state(table, state) ==
    IF state \in DOMAIN table THEN table ELSE DictSet(table, state, ZeroRow)

\* the row _save_q_value writes for the state, lines 152-162
stored_row(row) ==
    <<RowGet(row, "approve"), RowGet(row, "reject"), RowGet(row, "abstain")>>

\* the dict _load_q_values builds from a row of the store, lines 178-182
loaded_row(values) ==
    << <<"approve", values[1]>>, <<"reject", values[2]>>, <<"abstain", values[3]>> >>

\* EnhancedLearningAgent(wallet, rpc_client) over the store as it is: a start
\* or a restart of the process.  _init_database creates the tables that are
\* missing and leaves the rows alone; q_table starts empty.
EnhancedLearningAgent_init ==
    /\ lastCall' = Call("EnhancedLearningAgent", -1, "none", "none")
    /\ ret' = NoRet
    /\ q_table' = [x \in {} |-> 0]
    /\ exploration_rate' = InitialExplorationRate
    /\ prediction' = NoPrediction
    /\ loaded' = {}
    /\ UNCHANGED <<q_values, outcomes>>

\* the caller assigns agent.exploration_rate
set_exploration_rate(rate) ==
    /\ lastCall' = Call("set_exploration_rate", rate, "none", "none")
    /\ ret' = NoRet
    /\ exploration_rate' = rate
    /\ UNCHANGED <<q_table, q_values, outcomes, prediction, loaded>>

\* _load_q_values: every row of the store replaces the state's row in q_table
load_q_values ==
    LET stored == {split_state_key(key) : key \in DOMAIN q_values}
    IN /\ lastCall' = Call("_load_q_values", -1, "none", "none")
       /\ ret' = NoRet
       /\ q_table' = [state \in DOMAIN q_table \cup stored |->
                         IF state \in stored
                         THEN loaded_row(q_values[state_key(state)])
                         ELSE q_table[state]]
       /\ loaded' = loaded \cup stored
       /\ UNCHANGED <<q_values, outcomes, exploration_rate, prediction>>

\* record_outcome: the outcome row is inserted and committed, then
\* _update_q_value initialises the state, applies the Q-learning rule to
\* action.lower() and saves the state's row; a vote that is not a key of the
\* row raises KeyError at line 132, after the insert and the initialisation
record_outcome(id, proposal_type, agent_vote, final_result, success, market_condition, risk_level) ==
    LET reward == reward_of(success)
        state == <<market_condition, proposal_type, risk_level>>
        table == with_state(q_table, state)
        action == Lower(agent_vote)
        row == table[state]
    IN /\ lastCall' = Call("record_outcome", id, agent_vote, state_key(state))
       /\ outcomes' = Append(outcomes,
             [proposal_id |-> id, proposal_type |-> proposal_type,
              agent_vote |-> agent_vote, final_result |-> final_result,
              success |-> success, reward |-> reward,
              market_condition |-> market_condition, risk_level |-> risk_level])
       /\ IF action \in RowKeys(row)
          THEN LET updated == RowSet(row, action,
                                 new_q(RowGet(row, action), RowMax(row), reward))
               IN /\ q_table' = DictSet(table, state, updated)
                  /\ q_values' = DictSet(q_values, state_key(state), stored_row(updated))
                  /\ loaded' = loaded \ {state}
                  /\ ret' = Ok(reward)
          ELSE /\ q_table' = table
               /\ UNCHANGED <<q_values, loaded>>
               /\ ret' = Raise("KeyError")
       /\ UNCHANGED <<exploration_rate, prediction>>

\* the confidence of lines 213-215 without min(1.0, .)
confidence_of_unclamped(row, action) ==
    LET max_q == RowGet(row, action)
        avg_q == TruncDiv(RowSum(row), Len(row))
    IN TruncDiv(max_q - avg_q + QOne, 2)

\* confidence = min(1.0, (max_q - avg_q + 1.0) / 2.0), lines 213-215
confidence_of(row, action) ==
    LET max_q == RowGet(row, action)
        avg_q == TruncDiv(RowSum(row), Len(row))
    IN Min(QOne, TruncDiv(max_q - avg_q + QOne, 2))

\* predict_vote: random is the value np.random.random() gave (thousandths) and
\* choice the action np.random.choice gave
predict_vote(proposal_type, market_condition, risk_level, random, choice) ==
    LET state == <<market_condition, proposal_type, risk_level>>
        table == with_state(q_table, state)
    IN IF random < exploration_rate
       THEN /\ lastCall' = Call("predict_vote", -1, "explore", state_key(state))
            /\ prediction' = [action |-> choice, confidence |-> ExploreConfidence]
            /\ ret' = Ok(ExploreConfidence)
            /\ UNCHANGED <<q_table, q_values, outcomes, exploration_rate, loaded>>
       ELSE /\ lastCall' = Call("predict_vote", -1, "exploit", state_key(state))
            /\ q_table' = table
            /\ prediction' = [action |-> ArgMax(table[state]),
                              confidence |-> confidence_of(table[state],
                                                           ArgMax(table[state]))]
            /\ ret' = Ok(prediction'.confidence)
            /\ UNCHANGED <<q_values, outcomes, exploration_rate, loaded>>

-----------------------------------------------------------------------------
(* BaseAgent.run and BaseAgent.create_proposal, one task per agent: the     *)
(* tasks AgentSwarm.run_swarm gathers.  Every await is a point where another *)
(* task or the program can take a step, so each awaited call is one action.  *)
(* The listing of get_active_proposals, modelled fetch by fetch above, is    *)
(* taken here in one step.                                                   *)

RECURSIVE ActiveFrom(_)
\* the ids k, k+1, ... of the proposals that are not executed and not expired
ActiveFrom(k) ==
    IF k >= Len(chain) THEN <<>>
    ELSE (IF is_active(AccountOf(k), now) THEN <<k>> ELSE <<>>) \o ActiveFrom(k + 1)

\* the proposal the agent's loop is at
run_current(a) == run_proposals[a][run_index[a] + 1]

\* where run goes after the proposal at index - 1: the next proposal of the
\* list, or analyze_and_decide after the last one
run_after(a, index) ==
    IF index < Len(run_proposals[a]) THEN "get_proposal" ELSE "analyze_and_decide"

\* the votes the program has recorded for proposal k
BallotsOf(k) == IF k \in DOMAIN ballots THEN ballots[k] ELSE EmptyDict

\* the account of a proposal after the voter's vote is recorded, replacing the
\* voter's earlier vote
AccountAfterVote(k, voter, cast) ==
    LET count(v) ==
            Cardinality({x \in DOMAIN BallotsOf(k) \ {voter} : BallotsOf(k)[x] = v})
               + (IF cast = v THEN 1 ELSE 0)
    IN [AccountOf(k) EXCEPT !.votes_for = count("approve"),
                            !.votes_against = count("reject"),
                            !.votes_abstain = count("abstain")]

\* the program accepts a vote on a proposal that is open: not executed and not
\* past its expiry
ProgramAcceptsVote(k) == is_active(AccountOf(k), now)

\* an evaluate_proposal without the try/except around its body
evaluate_proposal_uncaught(decision, raised) ==
    IF raised THEN Raise("Exception") ELSE Ok(decision)

\* evaluate_proposal of the four agents run_swarm starts: the body computes a
\* decision inside try, and except Exception logs and returns ABSTAIN
evaluate_proposal(decision, raised) ==
    IF raised THEN Ok("abstain") ELSE Ok(decision)

\* an exception of the loop's body with no except around it: the task ends
run_on_exception_uncaught == "terminated"

\* except Exception as e of run: the error is logged and the task sleeps 60
\* seconds, lines 412-414
run_on_exception == "sleep_error"

\* run_swarm creates the task: run enters its loop
run(a) ==
    /\ run_pc[a] = "idle"
    /\ lastCall' = Call("run", -1, a, "none")
    /\ ret' = NoRet
    /\ run_pc' = [run_pc EXCEPT ![a] = "get_active_proposals"]
    /\ UNCHANGED <<run_proposals, run_index, run_vote, ballots, chain, scanClean,
                   create_pc, next_id>>

\* active_proposals = await self.get_active_proposals(); a failed fetch of
\* SwarmState is logged there and gives []
run_get_active_proposals(a, fetched) ==
    /\ run_pc[a] = "get_active_proposals"
    /\ lastCall' = Call("get_active_proposals", -1, a, "none")
    /\ ret' = IF fetched THEN NoRet ELSE Raise("logged")
    /\ LET listed == IF fetched THEN ActiveFrom(0) ELSE <<>>
       IN /\ run_proposals' = [run_proposals EXCEPT ![a] = listed]
          /\ run_pc' = [run_pc EXCEPT ![a] =
                           IF listed = <<>> THEN "analyze_and_decide"
                           ELSE "get_proposal"]
    /\ run_index' = [run_index EXCEPT ![a] = 0]
    /\ UNCHANGED <<run_vote, ballots, chain, scanClean, create_pc, next_id>>

\* proposal = await self.get_proposal(proposal_pda); a failed fetch gives None
\* and the loop goes on to the next proposal
run_get_proposal(a, fetched) ==
    /\ run_pc[a] = "get_proposal"
    /\ lastCall' = Call("get_proposal", run_current(a), a, "none")
    /\ ret' = IF fetched THEN NoRet ELSE Raise("logged")
    /\ IF fetched
       THEN /\ run_pc' = [run_pc EXCEPT ![a] = "evaluate_proposal"]
            /\ UNCHANGED run_index
       ELSE /\ run_pc' = [run_pc EXCEPT ![a] = run_after(a, run_index[a] + 1)]
            /\ run_index' = [run_index EXCEPT ![a] = run_index[a] + 1]
    /\ UNCHANGED <<run_proposals, run_vote, ballots, chain, scanClean, create_pc,
                   next_id>>

\* vote = await self.evaluate_proposal(proposal), then the reasoning string;
\* an exception that leaves evaluate_proposal is caught by run's except, which
\* logs it and sleeps 60 seconds
run_evaluate_proposal(a, decision, raised) ==
    /\ run_pc[a] = "evaluate_proposal"
    /\ lastCall' = Call("evaluate_proposal", run_current(a), a,
                        IF raised THEN "failed" ELSE "evaluated")
    /\ ret' = evaluate_proposal(decision, raised)
    /\ IF ret'.status = "ok"
       THEN /\ run_vote' = [run_vote EXCEPT ![a] = ret'.value]
            /\ run_pc' = [run_pc EXCEPT ![a] = "vote_on_proposal"]
       ELSE /\ run_pc' = [run_pc EXCEPT ![a] = run_on_exception]
            /\ UNCHANGED run_vote
    /\ UNCHANGED <<run_proposals, run_index, ballots, chain, scanClean, create_pc,
                   next_id>>

\* await self.vote_on_proposal(proposal_pda, vote, reasoning): the transaction
\* is sent; when it does not arrive or the program rejects it, vote_on_proposal
\* logs and raises again, and run's except logs and sleeps 60 seconds
run_vote_on_proposal(a, sent) ==
    /\ run_pc[a] = "vote_on_proposal"
    /\ lastCall' = Call("vote_on_proposal", run_current(a), a, run_vote[a])
    /\ IF sent /\ ProgramAcceptsVote(run_current(a))
       THEN /\ chain' = [chain EXCEPT ![run_current(a) + 1] =
                            AccountAfterVote(run_current(a), a, run_vote[a])]
            /\ ballots' = DictSet(ballots, run_current(a),
                                  DictSet(BallotsOf(run_current(a)), a, run_vote[a]))
            /\ scanClean' = FALSE
            /\ ret' = NoRet
            /\ run_index' = [run_index EXCEPT ![a] = run_index[a] + 1]
            /\ run_pc' = [run_pc EXCEPT ![a] = run_after(a, run_index[a] + 1)]
       ELSE /\ ret' = Raise("Exception")
            /\ run_pc' = [run_pc EXCEPT ![a] = run_on_exception]
            /\ UNCHANGED <<chain, ballots, scanClean, run_index>>
    /\ UNCHANGED <<run_proposals, run_vote, create_pc, next_id>>

\* decision = await self.analyze_and_decide(): the agents' analyses catch
\* their own exceptions and return None; then run sleeps 30 seconds
run_analyze_and_decide(a) ==
    /\ run_pc[a] = "analyze_and_decide"
    /\ lastCall' = Call("analyze_and_decide", -1, a, "none")
    /\ ret' = NoRet
    /\ run_pc' = [run_pc EXCEPT ![a] = "sleep"]
    /\ UNCHANGED <<run_proposals, run_index, run_vote, ballots, chain, scanClean,
                   create_pc, next_id>>

\* asyncio.sleep(30), or asyncio.sleep(60) after an error, returns: the loop
\* starts its next cycle
run_wake(a) ==
    /\ run_pc[a] \in {"sleep", "sleep_error"}
    /\ lastCall' = Call("sleep", -1, a, run_pc[a])
    /\ ret' = NoRet
    /\ run_pc' = [run_pc EXCEPT ![a] = "get_active_proposals"]
    /\ UNCHANGED <<run_proposals, run_index, run_vote, ballots, chain, scanClean,
                   create_pc, next_id>>

\* create_proposal up to its first await: the agent reads
\* swarm_state.total_proposals and derives the proposal's address from it; a
\* failed fetch is logged and raised
agent_create_proposal_fetch(a, fetched) ==
    /\ create_pc[a] = "idle"
    /\ lastCall' = Call("create_proposal", -1, a, "fetch")
    /\ IF fetched
       THEN /\ next_id' = [next_id EXCEPT ![a] = Len(chain)]
            /\ create_pc' = [create_pc EXCEPT ![a] = "rpc"]
            /\ ret' = NoRet
       ELSE /\ ret' = Raise("Exception")
            /\ UNCHANGED <<next_id, create_pc>>
    /\ UNCHANGED <<run_pc, run_proposals, run_index, run_vote, ballots, chain,
                   scanClean>>

\* the program creates a proposal at the address of the id it assigns, its
\* count of proposals: a transaction that names another address is rejected
ProgramAcceptsCreate(id) == id = Len(chain)

\* create_proposal from the rpc on: the transaction is sent; the method
\* returns the address it derived, or logs and raises when the transaction
\* does not arrive or is rejected
agent_create_proposal_rpc(a, sent, expires_at) ==
    /\ create_pc[a] = "rpc"
    /\ lastCall' = Call("create_proposal", next_id[a], a, "rpc")
    /\ IF sent /\ ProgramAcceptsCreate(next_id[a])
       THEN /\ chain' = Append(chain, Account(expires_at, NoVoteCounts))
            /\ scanClean' = FALSE
            /\ ret' = Ok(next_id[a])
       ELSE /\ ret' = Raise("Exception")
            /\ UNCHANGED <<chain, scanClean>>
    /\ create_pc' = [create_pc EXCEPT ![a] = "idle"]
    /\ UNCHANGED <<run_pc, run_proposals, run_index, run_vote, ballots, next_id>>

-----------------------------------------------------------------------------
(* Specifications *)

\* the ids a caller passes: every id up to the bound, so at least one is unknown
ProposalIds == 0 .. MaxProposals

Step(bound) == steps < bound /\ steps' = steps + 1 /\ UNCHANGED <<learnVars, runVars>>

\* a step of the coalition or the SDK swarm: the marketplace and the program's
\* accounts are other objects
CoalitionStep(bound) == Step(bound) /\ UNCHANGED <<marketVars, chainVars>>

\* Spec: the coalition's state-changing operations in any order, without the
\* clock (tally_votes, which changes nothing, is exercised in SpecTally).
Next ==
    \/ CoalitionStep(MaxSteps) /\ \E a \in Agents, r \in InitialReputations : add_member(a, r)
    \/ CoalitionStep(MaxSteps) /\ \E a \in Agents : remove_member(a)
    \/ /\ CoalitionStep(MaxSteps)
       /\ Cardinality(DOMAIN proposals) < MaxProposals
       /\ \E a \in Agents, m \in SpecMethods :
             create_proposal(a, "Raise max position", m, 667, 1)
    \/ /\ CoalitionStep(MaxSteps)
       /\ \E p \in ProposalIds, a \in Agents, c \in Choices, w \in VoteWeights :
             vote(p, a, c, w)
    \/ CoalitionStep(MaxSteps) /\ \E p \in ProposalIds : execute_proposal(p)

Spec == Init /\ [][Next]_vars

\* SpecExpiry: proposals, votes and resolution while the clock advances.
NextExpiry ==
    \/ /\ CoalitionStep(MaxSteps)
       /\ Cardinality(DOMAIN proposals) < MaxProposals
       /\ \E a \in Agents, t \in Thresholds :
             create_proposal(a, "Raise max position", {"simple_majority"}, t, 1)
    \/ /\ CoalitionStep(MaxSteps)
       /\ \E p \in ProposalIds, a \in Agents, c \in Choices, w \in VoteWeights :
             vote(p, a, c, w)
    \/ CoalitionStep(MaxSteps) /\ \E p \in ProposalIds : execute_proposal(p)
    \/ CoalitionStep(MaxSteps) /\ Tick

SpecExpiry == Init /\ [][NextExpiry]_vars

\* SpecCreate: creation requests of every shape, on the coalition and the SDK swarm.
NextCreate ==
    \/ /\ CoalitionStep(MaxSteps)
       /\ Cardinality(DOMAIN proposals) < MaxCreated
       /\ \E a \in Agents, d \in Descriptions, dl \in Deadlines :
             create_proposal(a, d, {}, 667, dl)
    \/ /\ CoalitionStep(MaxSteps)
       /\ Cardinality(DOMAIN sdkProposals) < MaxCreated
       /\ \E a \in Agents, d \in Descriptions : sdk_create_proposal(a, d)
    \/ CoalitionStep(MaxSteps) /\ \E a \in Agents : remove_member(a)

SpecCreate == Init /\ [][NextCreate]_vars

\* the ids SpecTally passes: its one proposal and an unknown id
TallyIds == {0, 1}

\* SpecTally: one proposal of any method and threshold, votes with computed and
\* with explicit weights, and the tally.
NextTally ==
    \/ /\ CoalitionStep(MaxSteps)
       /\ DOMAIN proposals = {}
       /\ \E a \in Agents, m \in Methods, t \in Thresholds :
             create_proposal(a, "Raise max position", {m}, t, 1)
    \/ /\ CoalitionStep(MaxSteps)
       /\ \E p \in TallyIds, a \in Agents, c \in Choices, w \in TallyVoteWeights :
             vote(p, a, c, w)
    \/ CoalitionStep(MaxSteps) /\ \E p \in TallyIds : tally_votes(p)

SpecTally == Init /\ [][NextTally]_vars

\* FairSpec: one coalition whose proposals are voted on and resolved for ever.
\* Every step that can be taken is eventually taken, and execute_proposal is
\* called on every proposal again and again.
NextLive ==
    \/ /\ UNCHANGED <<steps, marketVars, chainVars, learnVars, runVars>>
       /\ Cardinality(DOMAIN proposals) < MaxProposals
       /\ \E a \in Agents, t \in Thresholds :
             create_proposal(a, "Raise max position", {"simple_majority"}, t, 1)
    \/ /\ UNCHANGED <<steps, marketVars, chainVars, learnVars, runVars>>
       /\ \E p \in ProposalIds, a \in Agents, c \in Choices, w \in VoteWeights :
             vote(p, a, c, w)
    \/ UNCHANGED <<steps, marketVars, chainVars, learnVars, runVars>> /\ \E p \in ProposalIds : execute_proposal(p)
    \/ UNCHANGED <<steps, marketVars, chainVars, learnVars, runVars>> /\ Tick

FairSpec ==
    /\ Init
    /\ [][NextLive]_vars
    /\ WF_vars(NextLive)
    /\ \A p \in ProposalIds : WF_vars(execute_proposal(p) /\ UNCHANGED <<steps, marketVars, chainVars, learnVars, runVars>>)

\* expires_at of the accounts the program creates, and their vote counts
\* (for, against, abstain)
ExpiryTimes == {0, 1, 3}

\* SpecActive: callers of get_active_proposals while the program creates and
\* executes proposals and the clock advances.
NextActive ==
    \/ /\ Step(MaxAgentSteps)
       /\ Len(chain) < MaxAccounts
       /\ \E e \in ExpiryTimes : ProgramCreate(e, NoVoteCounts)
    \/ Step(MaxAgentSteps) /\ \E k \in 0 .. MaxAccounts - 1 : ProgramExecute(k)
    \/ Step(MaxAgentSteps) /\ ProgramTick
    \/ /\ Step(MaxAgentSteps)
       /\ \E fetched \in BOOLEAN :
             get_active_proposals_begin("get_active_proposals", fetched)
    \/ Step(MaxAgentSteps) /\ \E fetched \in BOOLEAN : get_active_proposals_step(fetched)
    \/ Step(MaxAgentSteps) /\ get_active_proposals_return

\* the agent runs beside one coalition
InitActive == Init /\ members = Agents

SpecActive == InitActive /\ [][NextActive]_vars

\* vote counts (for, against, abstain) of the accounts SpecConflict reads
VoteCounts == {<<3, 2, 0>>, <<3, 2, 20>>, <<9, 1, 0>>, <<9, 1, 20>>}

\* SpecConflict: the consensus agent's analyze_and_decide over proposals that
\* already carry votes.
NextConflict ==
    \/ /\ Step(MaxAgentSteps)
       /\ Len(chain) < MaxAccounts
       /\ \E v \in VoteCounts : ProgramCreate(3, v)
    \/ /\ Step(MaxAgentSteps)
       /\ \E fetched \in BOOLEAN : get_active_proposals_begin("analyze_scan", fetched)
    \/ Step(MaxAgentSteps) /\ \E fetched \in BOOLEAN : get_active_proposals_step(fetched)
    \/ Step(MaxAgentSteps) /\ get_active_proposals_return
    \/ Step(MaxAgentSteps) /\ \E fetched \in BOOLEAN : analyze_and_decide_step(fetched)
    \/ Step(MaxAgentSteps) /\ analyze_and_decide_return

SpecConflict == InitActive /\ [][NextConflict]_vars

\* SpecMarket: the marketplace's listings, reviews and performance updates.
NextMarket ==
    \/ Step(MaxSteps) /\ \E a \in Agents : list_agent(a)
    \/ Step(MaxSteps) /\ \E a \in Agents, r \in Ratings : add_review(a, r)
    \/ /\ Step(MaxSteps)
       /\ \E a \in Agents, success \in BOOLEAN, roi \in Rois :
             update_agent_performance(a, success, roi)

SpecMarket == InitActive /\ [][NextMarket]_vars

\* a third agent that joins the coalition, and the reputations given to
\* add_member in SpecWeights (100.0, 400.0)
WeightAgents == Agents \cup {"a3"}

WeightReputations == {200, 800}

WeightMethods == {{}, {"quadratic"}}

WeightChoices == {"approve", "reject"}

\* SpecWeights: members of different reputations join and leave while
\* proposals are voted on with computed weights and executed.
NextWeights ==
    \/ /\ CoalitionStep(MaxSteps)
       /\ \E a \in WeightAgents, r \in WeightReputations : add_member(a, r)
    \/ CoalitionStep(MaxSteps) /\ \E a \in WeightAgents : remove_member(a)
    \/ /\ CoalitionStep(MaxSteps)
       /\ Cardinality(DOMAIN proposals) < MaxProposals
       /\ \E a \in WeightAgents, m \in WeightMethods :
             create_proposal(a, "Raise max position", m, 667, 1)
    \/ /\ CoalitionStep(MaxSteps)
       /\ \E p \in ProposalIds, a \in WeightAgents, c \in WeightChoices :
             vote(p, a, c, {})
    \/ CoalitionStep(MaxSteps) /\ \E p \in ProposalIds : execute_proposal(p)

SpecWeights == Init /\ [][NextWeights]_vars

\* the reputation SpecFloor gives to add_member (0.0)
FloorReputations == {0}

\* SpecFloor: a member that joins with reputation 0.0 and votes on proposals of
\* the coalition's default method (reputation weighted).
NextFloor ==
    \/ /\ CoalitionStep(MaxFloorSteps)
       /\ \E a \in Agents, r \in FloorReputations : add_member(a, r)
    \/ /\ CoalitionStep(MaxFloorSteps)
       /\ Cardinality(DOMAIN proposals) < MaxProposals
       /\ \E a \in Agents : create_proposal(a, "Raise max position", {}, 667, 1)
    \/ /\ CoalitionStep(MaxFloorSteps)
       /\ \E p \in ProposalIds, a \in Agents, c \in Choices, w \in VoteWeights :
             vote(p, a, c, w)
    \/ CoalitionStep(MaxFloorSteps) /\ \E p \in ProposalIds : execute_proposal(p)

SpecFloor == Init /\ [][NextFloor]_vars

\* vote_weight in SpecExplicit: None, 2.0 and -1.0
ExplicitVoteWeights == {{}, {2000}, {0 - 1000}}

\* SpecExplicit: votes whose weight the caller passes.
NextExplicit ==
    \/ /\ CoalitionStep(MaxSteps)
       /\ DOMAIN proposals = {}
       /\ \E a \in Agents, m \in Methods :
             create_proposal(a, "Raise max position", {m}, 667, 1)
    \/ /\ CoalitionStep(MaxSteps)
       /\ \E p \in TallyIds, a \in Agents, c \in Choices, w \in ExplicitVoteWeights :
             vote(p, a, c, w)
    \/ CoalitionStep(MaxSteps) /\ \E p \in TallyIds : tally_votes(p)

SpecExplicit == Init /\ [][NextExplicit]_vars

\* vote counts (for, against, abstain) of the accounts SpecQuorum reads: a
\* single approve vote, abstain votes only, one approve among abstains, and a
\* close vote of five
QuorumVoteCounts == {<<1, 0, 0>>, <<0, 0, 20>>, <<1, 0, 5>>, <<3, 2, 0>>}

\* SpecQuorum: analyze_and_decide over proposals with few votes for or against.
NextQuorum ==
    \/ /\ Step(MaxAgentSteps)
       /\ Len(chain) < MaxAccounts
       /\ \E v \in QuorumVoteCounts : ProgramCreate(3, v)
    \/ /\ Step(MaxAgentSteps)
       /\ \E fetched \in BOOLEAN : get_active_proposals_begin("analyze_scan", fetched)
    \/ Step(MaxAgentSteps) /\ \E fetched \in BOOLEAN : get_active_proposals_step(fetched)
    \/ Step(MaxAgentSteps) /\ get_active_proposals_return
    \/ Step(MaxAgentSteps) /\ \E fetched \in BOOLEAN : analyze_and_decide_step(fetched)
    \/ Step(MaxAgentSteps) /\ analyze_and_decide_return

SpecQuorum == InitActive /\ [][NextQuorum]_vars

\* a step of the learning agent: the coalition, the marketplace, the program's
\* accounts and the run loops are other objects
LearnStep(bound) ==
    /\ steps < bound
    /\ steps' = steps + 1
    /\ UNCHANGED <<govVars, now, marketVars, chainVars, runVars>>

\* the states, votes and random draws of SpecLearn
LearnStates == {<<"normal", "trade", "medium">>, <<"bullish", "rebalance", "low">>}
LearnVotes == {"approve", "REJECT", "abstain"}
RandomDraws == {100, 500}

\* SpecLearn: one store and the learning agents constructed over it, one after
\* the other: outcomes recorded, votes predicted, the table reloaded, the
\* process restarted.
NextLearn ==
    \/ /\ LearnStep(MaxLearnSteps)
       /\ \E state \in LearnStates, v \in LearnVotes, success \in BOOLEAN :
             record_outcome(Len(outcomes), state[2], v, "approved", success,
                            state[1], state[3])
    \/ /\ LearnStep(MaxLearnSteps)
       /\ \E state \in LearnStates, random \in RandomDraws, choice \in Choices :
             predict_vote(state[2], state[1], state[3], random, choice)
    \/ LearnStep(MaxLearnSteps) /\ load_q_values
    \/ LearnStep(MaxLearnSteps) /\ EnhancedLearningAgent_init

SpecLearn == InitActive /\ [][NextLearn]_vars

\* SpecTrain: the same outcome (approve, success) recorded again and again for
\* one state, with the exploration rate set to 0 at some point and votes
\* predicted along the way.
NextTrain ==
    \/ /\ LearnStep(MaxTrainSteps)
       /\ Len(outcomes) < TrainUpdates
       /\ record_outcome(Len(outcomes), "trade", "approve", "approved", TRUE,
                         "normal", "medium")
    \/ LearnStep(MaxTrainSteps) /\ exploration_rate # 0 /\ set_exploration_rate(0)
    \/ /\ LearnStep(MaxTrainSteps)
       /\ \E random \in RandomDraws, choice \in Choices :
             predict_vote("trade", "normal", "medium", random, choice)

SpecTrain == InitActive /\ [][NextTrain]_vars

\* a step of an agent's task
RunStep(bound) ==
    /\ steps < bound
    /\ steps' = steps + 1
    /\ UNCHANGED <<govVars, now, marketVars, learnVars, pc, total_proposals, i,
                   active_proposals, flagged>>

\* SpecRun: the run loops of two agents beside the program: one proposal is
\* created, the clock passes its expiry, and each agent lists, evaluates (with
\* or without a failure), votes, analyses and sleeps.
NextRun ==
    \/ Step(MaxRunSteps) /\ chain = <<>> /\ ProgramCreate(1, NoVoteCounts)
    \/ Step(MaxRunSteps) /\ chain # <<>> /\ ProgramTick
    \/ RunStep(MaxRunSteps) /\ \E a \in Agents : run(a)
    \/ /\ RunStep(MaxRunSteps)
       /\ \E a \in Agents, fetched \in BOOLEAN : run_get_active_proposals(a, fetched)
    \/ /\ RunStep(MaxRunSteps)
       /\ \E a \in Agents, fetched \in BOOLEAN : run_get_proposal(a, fetched)
    \/ /\ RunStep(MaxRunSteps)
       /\ \E a \in Agents, decision \in Choices, raised \in BOOLEAN :
             run_evaluate_proposal(a, decision, raised)
    \/ /\ RunStep(MaxRunSteps)
       /\ \E a \in Agents, sent \in BOOLEAN : run_vote_on_proposal(a, sent)
    \/ RunStep(MaxRunSteps) /\ \E a \in Agents : run_analyze_and_decide(a)
    \/ RunStep(MaxRunSteps) /\ \E a \in Agents : run_wake(a)

SpecRun == InitActive /\ [][NextRun]_vars

\* SpecRace: two agents call create_proposal at any time.
NextRace ==
    \/ /\ RunStep(MaxRaceSteps)
       /\ \E a \in Agents, fetched \in BOOLEAN : agent_create_proposal_fetch(a, fetched)
    \/ /\ RunStep(MaxRaceSteps)
       /\ \E a \in Agents, sent \in BOOLEAN : agent_create_proposal_rpc(a, sent, 3)

SpecRace == InitActive /\ [][NextRace]_vars

\* voting_method of the proposal of SpecOrder: the coalition's default
\* (reputation-weighted), quadratic, simple majority
OrderMethods == {{}, {"quadratic"}, {"simple_majority"}}

\* the agents that have a vote in one of the proposal's ledgers
Voters(proposal) ==
    DOMAIN proposal.votes_for \cup DOMAIN proposal.votes_against
       \cup DOMAIN proposal.votes_abstain

\* SpecOrder: members join, one proposal is created, then each agent votes at
\* most once, in any order, and the votes are tallied; nothing changes the
\* members or their reputations once the proposal exists.
NextOrder ==
    \/ /\ CoalitionStep(MaxOrderSteps)
       /\ DOMAIN proposals = {}
       /\ \E a \in WeightAgents, r \in WeightReputations : add_member(a, r)
    \/ /\ CoalitionStep(MaxOrderSteps)
       /\ DOMAIN proposals = {}
       /\ \E a \in WeightAgents, m \in OrderMethods :
             create_proposal(a, "Raise max position", m, 667, 1)
    \/ /\ CoalitionStep(MaxOrderSteps)
       /\ 0 \in DOMAIN proposals
       /\ \E a \in WeightAgents \ Voters(proposals[0]), c \in Choices :
             vote(0, a, c, {})
    \/ CoalitionStep(MaxOrderSteps) /\ tally_votes(0)

SpecOrder == InitActive /\ [][NextOrder]_vars

\* the votes and the final results of SpecOutcome: a vote for, a vote against
\* and a string that is no key of a Q-row; the two results of a resolution
OutcomeVotes == {"approve", "reject", "hold"}
FinalResults == {"approved", "rejected"}

\* SpecOutcome: outcomes recorded by one learning agent for votes and final
\* results of every combination, the table reloaded in between.
NextOutcome ==
    \/ /\ LearnStep(MaxOutcomeSteps)
       /\ \E state \in LearnStates, v \in OutcomeVotes, final_result \in FinalResults,
             success \in BOOLEAN :
             record_outcome(Len(outcomes), state[2], v, final_result, success,
                            state[1], state[3])
    \/ LearnStep(MaxOutcomeSteps) /\ load_q_values

SpecOutcome == InitActive /\ [][NextOutcome]_vars

\* SpecConfidence: one state trained far enough for its margin to pass 1.  The
\* first FreeOutcomes outcomes are failures of any vote or successful
\* approvals; the later ones are successful approvals.  Votes are predicted along the way, with the
\* exploration rate as constructed or set to 0.
NextConfidence ==
    \/ /\ LearnStep(MaxConfidenceSteps)
       /\ Len(outcomes) < ConfidenceUpdates
       /\ \E v \in Choices, success \in BOOLEAN :
             /\ (Len(outcomes) < FreeOutcomes /\ ~success) \/ (v = "approve" /\ success)
             /\ record_outcome(Len(outcomes), "trade", v, "approved", success,
                               "normal", "medium")
    \/ LearnStep(MaxConfidenceSteps) /\ exploration_rate # 0 /\ set_exploration_rate(0)
    \/ /\ LearnStep(MaxConfidenceSteps)
       /\ \E random \in RandomDraws, choice \in Choices :
             predict_vote("trade", "normal", "medium", random, choice)

SpecConfidence == InitActive /\ [][NextConfidence]_vars

\* the decisions an evaluation that does not fail returns in FairRun (a
\* failed one gives abstain); the loop's path does not depend on the decision
LiveDecisions == {"approve"}

\* the next step of agent a's task: the one awaited call its loop is at
run_task(a) ==
    /\ UNCHANGED <<steps, govVars, now, marketVars, learnVars, pc, total_proposals,
                   i, active_proposals, flagged>>
    /\ \/ run(a)
       \/ \E fetched \in BOOLEAN : run_get_active_proposals(a, fetched)
       \/ \E fetched \in BOOLEAN : run_get_proposal(a, fetched)
       \/ \E decision \in LiveDecisions, raised \in BOOLEAN :
             run_evaluate_proposal(a, decision, raised)
       \/ \E sent \in BOOLEAN : run_vote_on_proposal(a, sent)
       \/ run_analyze_and_decide(a)
       \/ run_wake(a)

\* FairRun: the run loops of two agents beside the program, for ever: one
\* proposal is created and, at some point, executed.  The event loop runs
\* every task that is ready, and every awaited call (a fetch, a transaction,
\* a sleep) returns or raises: each task's next step is taken eventually
\* (every step of a task changes its position, run_pc or run_index).
NextRunLive ==
    \/ /\ UNCHANGED <<steps, learnVars, runVars>>
       /\ chain = <<>>
       /\ ProgramCreate(1, NoVoteCounts)
    \/ UNCHANGED <<steps, learnVars, runVars>> /\ ProgramExecute(0)
    \/ \E a \in Agents : run_task(a)

FairRun ==
    /\ InitActive
    /\ [][NextRunLive]_vars
    /\ \A a \in Agents : WF_<<run_pc, run_index>>(run_task(a))

\* required_threshold values of SpecExecute (0.0, 0.5, 1.0) and its vote
\* weights: None (the method's weight), the explicit weights 0.0 and -1.0
ExecuteThresholds == {0, 500, 1000}
ExecuteVoteWeights == {{}, {0}, {0 - 1000}}

\* SpecExecute: one proposal of any threshold, votes of any weight and
\* execute_proposal at any time.
NextExecute ==
    \/ /\ CoalitionStep(MaxSteps)
       /\ DOMAIN proposals = {}
       /\ \E a \in Agents, t \in ExecuteThresholds :
             create_proposal(a, "Raise max position", {"simple_majority"}, t, 1)
    \/ /\ CoalitionStep(MaxSteps)
       /\ \E p \in TallyIds, a \in Agents, c \in Choices, w \in ExecuteVoteWeights :
             vote(p, a, c, w)
    \/ CoalitionStep(MaxSteps) /\ \E p \in TallyIds : execute_proposal(p)

SpecExecute == InitActive /\ [][NextExecute]_vars

\* the renters, rental periods (days) and payments (SOL) of SpecRent
Renters == {"r1", "r2"}
RentalPeriods == {1, 31}
Payments == {1, 2}

\* SpecRent: agents listed, listed again and rented.
NextRent ==
    \/ Step(MaxSteps) /\ \E a \in Agents : list_agent(a)
    \/ /\ Step(MaxSteps)
       /\ \E a \in Agents, r \in Renters, d \in RentalPeriods, amount \in Payments :
             rent_agent(a, r, d, amount)

SpecRent == InitActive /\ [][NextRent]_vars

\* the vote strings SpecSdk passes: the three of VoteType and one that is none
\* of them
SdkVotes == {"approve", "reject", "abstain", "APPROVE"}

\* SpecSdk: the SDK swarm's proposals, voted on and asked for their status.
NextSdk ==
    \/ /\ CoalitionStep(MaxSteps)
       /\ Cardinality(DOMAIN sdkProposals) < MaxProposals
       /\ \E a \in Agents : sdk_create_proposal(a, "Raise max position")
    \/ /\ CoalitionStep(MaxSteps)
       /\ \E a \in Agents, p \in ProposalIds, c \in SdkVotes : sdk_vote(a, p, c)
    \/ CoalitionStep(MaxSteps) /\ \E p \in ProposalIds : sdk_get_status(p)
    \/ CoalitionStep(MaxSteps) /\ \E p \in ProposalIds : sdk_set_executed(p)

SpecSdk == InitActive /\ [][NextSdk]_vars

-----------------------------------------------------------------------------
(* Properties *)

LedgerNames == {"votes_for", "votes_against", "votes_abstain"}

Ledger(proposal, name) ==
    IF name = "votes_for" THEN proposal.votes_for
    ELSE IF name = "votes_against" THEN proposal.votes_against
    ELSE proposal.votes_abstain

LedgersOf(proposal, voter) ==
    {name \in LedgerNames : voter \in DOMAIN Ledger(proposal, name)}

LedgerOfChoice(choice) ==
    IF Lower(choice) = "approve" THEN "votes_for"
    ELSE IF Lower(choice) = "reject" THEN "votes_against"
    ELSE "votes_abstain"

NoVotes(proposal) ==
    \A name \in LedgerNames : DOMAIN Ledger(proposal, name) = {}

\* the clock is past the proposal's expiry (creation time + deadline)
Expired(p) == now > createdAt[p] + proposals[p].deadline

\* the call of the last step was op on an existing proposal
CalledOn(op) == lastCall.op = op /\ lastCall.pid \in DOMAIN proposals

(* C1: each voter appears in at most one of a proposal's three ledgers, the one
   of the voter's most recent choice, so that the tally counts each voter's
   weight once. *)
C1_OneLedgerPerVoter ==
    /\ \A p \in DOMAIN proposals : \A a \in Agents :
          Cardinality(LedgersOf(proposals[p], a)) <= 1
    /\ (CalledOn("vote") /\ ret.status = "ok") =>
          LedgersOf(proposals[lastCall.pid], lastCall.agent)
              = {LedgerOfChoice(lastCall.arg)}

(* C2: once a proposal is executed, its record (ledgers, hence tally) never
   changes again, and a member's vote on it is rejected with AlreadyExecuted. *)
C2_ExecutedImmutable ==
    [][\A p \in DOMAIN proposals :
          proposals[p].executed =>
             /\ proposals'[p] = proposals[p]
             /\ (lastCall'.op = "vote" /\ lastCall'.pid = p
                   /\ lastCall'.agent \in members)
                => ret'.status = "AlreadyExecuted"]_vars

(* C3: execute_proposal is idempotent.  The executed flag is never reset; the
   call that sets it returns True and moves each member's reputation by at most
   one delta (+1.0 for an approver, -0.5 for a rejecter); every call on a
   proposal that is already executed returns False and changes neither the
   reputations nor the proposals; and execute_proposal changes reputations only
   in the call that sets the flag. *)
C3_ExecuteIdempotent ==
    [][/\ \A p \in DOMAIN proposals :
             /\ proposals[p].executed => proposals'[p].executed
             /\ (lastCall'.op = "execute_proposal" /\ lastCall'.pid = p
                   /\ proposals[p].executed)
                => /\ ret' = Ok(0)
                   /\ reputation' = reputation
                   /\ proposals' = proposals
             /\ (~proposals[p].executed /\ proposals'[p].executed)
                => /\ lastCall' = Call("execute_proposal", p, "none", "none")
                   /\ ret' = Ok(1)
                   /\ DOMAIN reputation' = DOMAIN reputation
                   /\ \A m \in DOMAIN reputation :
                         reputation'[m] - reputation[m] =
                            IF m \in DOMAIN proposals[p].votes_for THEN WinDelta
                            ELSE IF m \in DOMAIN proposals[p].votes_against
                            THEN 0 - LoseDelta
                            ELSE 0
       /\ (lastCall'.op = "execute_proposal" /\ reputation' # reputation)
          => \E p \in DOMAIN proposals :
                ~proposals[p].executed /\ proposals'[p].executed]_vars

\* a second execute_proposal on an executed proposal returned False, and the
\* approver's reputation carries the delta of the first call once
C3_RepeatWitness ==
    /\ CalledOn("execute_proposal")
    /\ ret = Ok(0)
    /\ proposals[lastCall.pid].executed
    /\ \E m \in members :
          /\ m \in DOMAIN proposals[lastCall.pid].votes_for
          /\ reputation[m] = BaselineReputation + WinDelta

\* passes: for / (for + against) >= threshold, without a division
PassesRatio(total_for, total_against, threshold) ==
    IF total_for + total_against = 0 THEN 0 >= threshold
    ELSE total_for * WeightOne >= threshold * (total_for + total_against)

RECURSIVE VotesFrom(_, _, _)
\* a supermajority proposal of threshold 0.667 on which the first n_for of the
\* five voters approve and the others reject, each with weight 1.0
VotesFrom(voters, n_for, proposal) ==
    IF voters = <<>> THEN proposal
    ELSE VotesFrom(Tail(voters), n_for - 1,
                   record_vote(proposal, Head(voters),
                               IF n_for > 0 THEN "approve" ELSE "reject", WeightOne))

FiveVoters(n_for) ==
    VotesFrom(<<"Agent-A", "Agent-B", "Agent-C", "Agent-D", "Agent-E">>, n_for,
              NewProposal(0, "Agent-A", "Raise max position", "supermajority", 667, 1))

(* C4: for every voting method the tally's totals are the sums of the recorded
   for and against weights, passed is for / (for + against) >= threshold with
   the abstain weights left out, the approval rate is 0 without for and against
   weight, and with five weight-1 voters and threshold 0.667 a 4/1 vote passes
   and a 3/2 vote does not. *)
C4_TallyFormula ==
    /\ (CalledOn("tally_votes") /\ ret.status = "ok") =>
          LET proposal == proposals[lastCall.pid]
              total_for == SumValues(proposal.votes_for)
              total_against == SumValues(proposal.votes_against)
          IN /\ lastTally.total_for = total_for
             /\ lastTally.total_against = total_against
             /\ lastTally.required_threshold = proposal.required_threshold
             /\ lastTally.passed
                   <=> PassesRatio(total_for, total_against, proposal.required_threshold)
             /\ (total_for + total_against = 0) => lastTally.approval_rate = 0
    /\ tally(FiveVoters(4)).passed
    /\ tally(FiveVoters(4)).total_for = 4 * WeightOne
    /\ tally(FiveVoters(4)).total_against = WeightOne
    /\ ~tally(FiveVoters(3)).passed

\* a tally that passed with an abstain vote which, counted, would have failed it
C4_AbstainWitness ==
    /\ CalledOn("tally_votes")
    /\ ret.status = "ok"
    /\ lastTally.passed
    /\ LET proposal == proposals[lastCall.pid]
       IN /\ DOMAIN proposal.votes_for # {}
          /\ DOMAIN proposal.votes_abstain # {}
          /\ ~PassesRatio(SumValues(proposal.votes_for),
                          SumValues(proposal.votes_against)
                             + SumValues(proposal.votes_abstain),
                          proposal.required_threshold)

(* C5: proposal ids are strictly increasing in creation order and never reused,
   in the coalition and in the SDK swarm: a proposal is stored under its id, no
   proposal is removed, and a successful create returns an id that was not in
   use and is greater than every id in use. *)
C5_IdsIncreasing ==
    [][/\ DOMAIN proposals \subseteq DOMAIN proposals'
       /\ DOMAIN sdkProposals \subseteq DOMAIN sdkProposals'
       /\ \A p \in DOMAIN proposals' : proposals'[p].id = p
       /\ \A p \in DOMAIN sdkProposals' : sdkProposals'[p].id = p
       /\ (lastCall'.op = "create_proposal" /\ ret'.status = "ok")
          => /\ ret'.value \notin DOMAIN proposals
             /\ DOMAIN proposals' = DOMAIN proposals \cup {ret'.value}
             /\ \A q \in DOMAIN proposals : q < ret'.value
       /\ (lastCall'.op = "sdk_create_proposal" /\ ret'.status = "ok")
          => /\ ret'.value \notin DOMAIN sdkProposals
             /\ DOMAIN sdkProposals' = DOMAIN sdkProposals \cup {ret'.value}
             /\ \A q \in DOMAIN sdkProposals : q < ret'.value]_vars

\* two proposals were created in the coalition and two in the swarm
C5_TwoEachWitness ==
    /\ DOMAIN proposals = {0, 1}
    /\ DOMAIN sdkProposals = {0, 1}

(* C6: create_proposal rejects an empty description and a deadline (ttl) <= 0
   with InvalidProposal, and a rejected request creates no proposal. *)
C6_InvalidProposalRejected ==
    /\ \A p \in DOMAIN proposals :
          proposals[p].description # "" /\ proposals[p].deadline > 0
    /\ (lastCall.op = "create_proposal" /\ lastCall.agent \in members
          /\ lastCall.arg = "")
          => ret.status = "InvalidProposal"

(* C7: a vote on an unknown proposal id, a vote by a non-member and a
   create_proposal by a non-member raise an error and leave the proposals (with
   their ledgers), the members and the reputations unchanged. *)
C7_FailedCallsChangeNothing ==
    [][/\ (lastCall'.op = "vote"
             /\ (lastCall'.pid \notin DOMAIN proposals \/ lastCall'.agent \notin members))
          => /\ ret'.status = "ValueError"
             /\ UNCHANGED <<proposals, members, reputation>>
       /\ (lastCall'.op = "create_proposal" /\ lastCall'.agent \notin members)
          => /\ ret'.status = "ValueError"
             /\ UNCHANGED <<proposals, members, reputation>>]_vars

\* a non-member's vote on an existing proposal raised ValueError
C7_NonMemberVoteWitness ==
    /\ CalledOn("vote")
    /\ lastCall.agent \notin members
    /\ ret.status = "ValueError"
    /\ NoVotes(proposals[lastCall.pid])

(* C8: a member's vote on a proposal whose expiry has passed is rejected with
   Expired and leaves the proposal's ledgers unchanged. *)
C8_ExpiredVoteRejected ==
    [][\A p \in DOMAIN proposals :
          (lastCall'.op = "vote" /\ lastCall'.pid = p /\ lastCall'.agent \in members
             /\ Expired(p))
          => /\ ret'.status = "Expired"
             /\ proposals'[p] = proposals[p]]_vars

(* C9: resolving a proposal that is past its expiry and has no votes gives the
   outcome Expired; it is not reported as a vote that did not pass. *)
C9_ExpiredNotRejected ==
    (CalledOn("execute_proposal") /\ Expired(lastCall.pid)
        /\ NoVotes(proposals[lastCall.pid]))
    => /\ ret.status = "Expired"
       /\ ret # Ok(0)

\* the outcome the coalition records for a proposal: the executed flag is the
\* only record of one
Outcome(p) == IF proposals[p].executed THEN "Approved" ELSE "Open"

(* C10: every proposal eventually leaves Open for a terminal outcome and keeps
   that outcome for ever. *)
C10_EventuallyResolved ==
    /\ \A p \in ProposalIds :
          (p \in DOMAIN proposals)
             ~> (p \in DOMAIN proposals /\ Outcome(p) # "Open")
    /\ [][\A p \in DOMAIN proposals :
             Outcome(p) # "Open" => Outcome(p)' = Outcome(p)]_vars

\* the proposal of id k is active by the words of the contract
ListedByContract(k) == ~AccountOf(k).executed /\ AccountOf(k).expires_at > now

\* the members of a set of numbers in ascending order
RECURSIVE Ascending(_)
Ascending(S) ==
    IF S = {} THEN <<>>
    ELSE LET least == CHOOSE x \in S : \A y \in S : x <= y
         IN <<least>> \o Ascending(S \ {least})

OfGetActive(call) ==
    call.op \in {"get_active_proposals", "analyze_scan"}

(* C11: get_active_proposals returns exactly the proposals with executed=false
   and expires_at > now, in ascending id order, and reading changes nothing:
   no step of the method changes an account or the clock; each fetch that
   succeeds lists the proposal exactly when it is not executed and its
   expires_at is greater than the clock; the list is in strictly ascending id
   order at every step; and a call during which no fetch failed and neither the
   accounts nor the clock moved returns the ascending list of all such
   proposals. *)
C11_ActiveListing ==
    [][/\ OfGetActive(lastCall') => (chain' = chain /\ now' = now)
       /\ (OfGetActive(lastCall') /\ lastCall'.arg = "fetch")
          => /\ active_proposals' \in {active_proposals, Append(active_proposals, i)}
             /\ active_proposals' # active_proposals => ListedByContract(i)
             /\ (scanClean' /\ ListedByContract(i))
                => active_proposals' = Append(active_proposals, i)
       /\ \A j, k \in 1 .. Len(active_proposals') :
             j < k => active_proposals'[j] < active_proposals'[k]
       /\ (OfGetActive(lastCall') /\ lastCall'.arg = "return" /\ scanClean')
          => active_proposals' =
                Ascending({k \in 0 .. Len(chain') - 1 : ListedByContract(k)'})]_vars

\* a call returned two of three proposals, the third being executed or expired
C11_FilteredWitness ==
    /\ lastCall = Call("get_active_proposals", -1, "none", "return")
    /\ scanClean
    /\ Len(chain) = 3
    /\ Len(active_proposals) = 2
    /\ \E k \in 0 .. 2 : AccountOf(k).expires_at <= now

\* contested by the words of the contract: |forRatio - againstRatio| < 0.4 with
\* forRatio = for / (for + against) and againstRatio = 1 - forRatio, that is
\* |for - against| / (for + against) < 0.4
ContestedByContract(proposal) ==
    /\ proposal.votes_for + proposal.votes_against > 0
    /\ Abs(proposal.votes_for - proposal.votes_against) * WeightOne
          < conflict_threshold * (proposal.votes_for + proposal.votes_against)

(* C20: the conflict check flags a proposal exactly when
   |forRatio - againstRatio| < 0.4, the ratios taken over the for and against
   votes only: whenever analyze_and_decide has fetched a listed proposal, the
   proposal is flagged if and only if it is contested by that formula (so 3/2
   is flagged, 9/1 is not, and abstain votes make no difference). *)
C20_ConflictFormula ==
    (lastCall.op = "analyze_and_decide" /\ lastCall.arg = "fetch"
        /\ ret.status # "logged")
    => (lastCall.pid \in flagged <=> ContestedByContract(AccountOf(lastCall.pid)))

(* C19: add_review changes the agent's reputation by (r - 3) * 5 where r is
   the 1..5 star rating stored in the review, so that a 3-star review changes
   nothing and no review changes the reputation by more than 10 either way,
   whatever rating the caller passes. *)
C19_ReviewDelta ==
    [][(lastCall'.op = "add_review" /\ ret'.status = "ok")
       => LET a == lastCall'.agent
              stored == listings'[a].reviews[Len(listings'[a].reviews)]
              delta == listings'[a].reputation - listings[a].reputation
          IN /\ stored \in MinStars .. MaxStars
             /\ delta = (stored - NeutralStars) * ReviewFactor
             /\ delta >= 0 - 10
             /\ delta <= 10]_vars

\* the sum of f over the set S
RECURSIVE SumOver(_, _)
SumOver(S, f) ==
    IF S = {} THEN 0
    ELSE LET x == CHOOSE y \in S : TRUE
         IN f[x] + SumOver(S \ {x}, f)

\* the sum of the current members' reputations
MemberReputation == SumOver(members, reputation)

\* reputation[voter] / (sum of the members' reputations) * (member count), in
\* thousandths, truncated
ContractWeight(voter) ==
    (reputation[voter] * Cardinality(members) * WeightOne) \div MemberReputation

\* the weight recorded for the voter of the last call
RecordedWeight ==
    Ledger(proposals[lastCall.pid], LedgerOfChoice(lastCall.arg))[lastCall.agent]

(* C12: under REPUTATION_WEIGHTED a voter's weight is
   reputation[voter] / (sum of all current members' reputations) * (member
   count), for the weight the method computes in any state and for the weight a
   vote records; with equal reputations every weight is 1.0; and the weights of
   all members in one state sum to the member count (up to the truncation of
   each weight to thousandths). *)
C12_ReputationWeight ==
    /\ MemberReputation > 0 =>
          /\ \A m \in members :
                /\ calculate_vote_weight(m, "reputation_weighted") = ContractWeight(m)
                /\ (\A x \in members : reputation[x] = reputation[m])
                      => calculate_vote_weight(m, "reputation_weighted") = WeightOne
          /\ LET weights == [m \in members |->
                                calculate_vote_weight(m, "reputation_weighted")]
                 n == Cardinality(members)
             IN /\ SumOver(members, weights) <= n * WeightOne
                /\ SumOver(members, weights) > n * WeightOne - n
    /\ (CalledOn("vote") /\ ret.status = "ok"
          /\ proposals[lastCall.pid].voting_method = "reputation_weighted")
       => RecordedWeight = ContractWeight(lastCall.agent)

\* three members of equal reputation, one of whom has just voted with weight 1.0
C12_ThreeEqualWitness ==
    /\ Cardinality(members) = 3
    /\ \A m \in members : reputation[m] = BaselineReputation
    /\ CalledOn("vote")
    /\ ret.status = "ok"
    /\ proposals[lastCall.pid].voting_method = "reputation_weighted"
    /\ RecordedWeight = WeightOne

(* C14: under QUADRATIC a voter's weight is the square root of its reputation,
   for the weight the method computes and for the weight a vote records (w is
   the root truncated to thousandths: w^2 <= reputation < (w + 0.001)^2), and a
   voter of reputation 400 has exactly double the weight of a voter of
   reputation 100. *)
C14_QuadraticWeight ==
    /\ \A m \in members :
          LET w == calculate_vote_weight(m, "quadratic")
              r == reputation[m] * ((WeightOne * WeightOne) \div 2)
          IN /\ w >= 0
             /\ w * w <= r
             /\ r < (w + 1) * (w + 1)
    /\ \A m1, m2 \in members :
          (reputation[m1] = 800 /\ reputation[m2] = 200)
             => calculate_vote_weight(m1, "quadratic")
                   = 2 * calculate_vote_weight(m2, "quadratic")
    /\ (CalledOn("vote") /\ ret.status = "ok"
          /\ proposals[lastCall.pid].voting_method = "quadratic")
       => LET r == reputation[lastCall.agent] * ((WeightOne * WeightOne) \div 2)
          IN /\ RecordedWeight * RecordedWeight <= r
             /\ r < (RecordedWeight + 1) * (RecordedWeight + 1)

\* a member of reputation 400 and a member of reputation 100 have voted on a
\* quadratic proposal with weights 20.0 and 10.0
C14_DoubleWitness ==
    /\ 0 \in DOMAIN proposals
    /\ proposals[0].voting_method = "quadratic"
    /\ \E m1, m2 \in members :
          /\ reputation[m1] = 800
          /\ reputation[m2] = 200
          /\ LedgersOf(proposals[0], m1) # {}
          /\ LedgersOf(proposals[0], m2) # {}
          /\ \A name \in LedgersOf(proposals[0], m1) :
                Ledger(proposals[0], name)[m1] = 20 * WeightOne
          /\ \A name \in LedgersOf(proposals[0], m2) :
                Ledger(proposals[0], name)[m2] = 10 * WeightOne

(* C13: after any sequence of add_member, remove_member, vote and
   execute_proposal calls, no member's reputation-weighted vote weight exceeds
   the current member count. *)
C13_WeightAtMostCount ==
    \A m \in members :
       SumValues(reputation) # 0
          => calculate_vote_weight(m, "reputation_weighted")
                <= Cardinality(members) * WeightOne

(* C15: every vote weight recorded in a proposal's ledger is >= 0, for every
   voting method and also when the weight is passed to vote explicitly. *)
C15_WeightsNonNegative ==
    \A p \in DOMAIN proposals : \A name \in LedgerNames :
       \A voter \in DOMAIN Ledger(proposals[p], name) :
          Ledger(proposals[p], name)[voter] >= 0

(* C18: no reputation ever drops below the floor 0, in the coalition and in the
   marketplace. *)
C18_ReputationFloor ==
    /\ \A m \in DOMAIN reputation : reputation[m] >= 0
    /\ \A a \in DOMAIN listings : listings[a].reputation >= 0

\* the change of reputation the contract gives to a vote when the proposal is
\* approved (won is "approve") or rejected (won is "reject")
DeltaOfChoice(choice, won) ==
    IF Lower(choice) = "abstain" THEN 0
    ELSE IF Lower(choice) = won THEN WinDelta
    ELSE 0 - LoseDelta

ChoiceOfLedger(name) ==
    IF name = "votes_for" THEN "approve"
    ELSE IF name = "votes_against" THEN "reject"
    ELSE "abstain"

(* C16: when execute_proposal succeeds (outcome Approved), each current member
   who voted approve gains exactly 1.0, each who voted reject loses exactly 0.5,
   and abstainers and members who did not vote keep their reputation.  A member
   in one ledger voted that ledger's choice, a member in no ledger did not
   vote, and the member whose vote was the call just before the execution voted
   the choice of that call. *)
C16_ApprovedDeltas ==
    [][\A p \in DOMAIN proposals :
          (lastCall'.op = "execute_proposal" /\ lastCall'.pid = p /\ ret' = Ok(1))
          => /\ \A m \in members :
                   /\ LedgersOf(proposals[p], m) = {}
                         => reputation'[m] = reputation[m]
                   /\ \A name \in LedgerNames :
                         LedgersOf(proposals[p], m) = {name}
                            => reputation'[m] - reputation[m]
                                  = DeltaOfChoice(ChoiceOfLedger(name), "approve")
             /\ (lastCall.op = "vote" /\ lastCall.pid = p /\ ret.status = "ok"
                   /\ lastCall.agent \in members)
                => reputation'[lastCall.agent] - reputation[lastCall.agent]
                      = DeltaOfChoice(lastCall.arg, "approve")]_vars

(* C17: when a proposal with votes is resolved and its tally fails the
   threshold (outcome Rejected), the members who voted reject gain the fixed
   increment and the members who voted approve lose the fixed decrement.  The
   resolution is the call of execute_proposal on the proposal, not yet executed,
   whose tally does not pass. *)
C17_RejectedDeltas ==
    [][\A p \in DOMAIN proposals :
          (lastCall'.op = "execute_proposal" /\ lastCall'.pid = p
             /\ ~proposals[p].executed /\ ~tally(proposals[p]).passed)
          => \A m \in members : \A name \in LedgerNames :
                LedgersOf(proposals[p], m) = {name}
                   => reputation'[m] - reputation[m]
                         = DeltaOfChoice(ChoiceOfLedger(name), "reject")]_vars

(* C21: a proposal with fewer than 2 votes that are not abstentions (a single
   approve vote, abstain votes only) is never flagged contested by the
   conflict check: every flagged proposal has votes_for + votes_against >= 2. *)
C21_QuorumOfTwo ==
    \A k \in flagged :
        AccountOf(k).votes_for + AccountOf(k).votes_against >= 2

\* the row of a state in a table, a state the table does not have counting as
\* the zero row
RowOf(table, state) == IF state \in DOMAIN table THEN table[state] ELSE ZeroRow

\* the action the contract names for a row: the largest value, ties broken in
\* the order approve, reject, abstain
ContractChoice(row) ==
    LET a == RowGet(row, "approve")
        r == RowGet(row, "reject")
        b == RowGet(row, "abstain")
    IN IF a >= r /\ a >= b THEN "approve"
       ELSE IF r >= b THEN "reject"
       ELSE "abstain"

\* the last step was predict_vote in exploitation mode
Exploited == lastCall.op = "predict_vote" /\ lastCall.agent = "exploit"

(* C22: in exploitation mode predict_vote returns the action with the largest
   Q-value of the state, ties broken in the order approve, reject, abstain, so
   that a state whose three values are equal (an unknown state included)
   gives approve, whether the row was built by updates or read from the
   store. *)
C22_ArgmaxFixedOrder ==
    Exploited =>
        LET row == q_table[split_state_key(lastCall.arg)]
        IN /\ prediction.action = ContractChoice(row)
           /\ RowGet(row, prediction.action) = RowMax(row)
           /\ (RowGet(row, "approve") = RowGet(row, "reject")
                 /\ RowGet(row, "reject") = RowGet(row, "abstain"))
              => prediction.action = "approve"

\* predict_vote exploited a row read from the store in which reject and
\* abstain tie above approve, and returned reject
C22_TieAfterReload ==
    /\ Exploited
    /\ split_state_key(lastCall.arg) \in loaded
    /\ LET row == q_table[split_state_key(lastCall.arg)]
       IN /\ RowGet(row, "reject") = RowGet(row, "abstain")
          /\ RowGet(row, "approve") < RowGet(row, "reject")
    /\ prediction.action = "reject"

\* a step in which record_outcome returned: its _update_q_value ran to the end
Updated == lastCall'.op = "record_outcome" /\ ret'.status = "ok"

\* new is old + alpha * (reward + gamma * max_q - old), to the model's
\* resolution (the model truncates twice, less than 2 ten-thousandths)
FollowsRule(old, max_q, reward, new) ==
    Abs((new - old) * WeightOne * WeightOne
          - learning_rate * (WeightOne * reward + discount_factor * max_q
                               - WeightOne * old))
       < 2 * WeightOne * WeightOne

(* C23: _update_q_value(state, action, reward) sets Q(state, action) to
   Q + 0.1 * (reward + 0.95 * max over the actions of Q(state, .) - Q), an
   unknown state counting as zero for the three actions; it changes no other
   action's value of that state and no other state's row. *)
C23_QLearningRule ==
    [][Updated =>
         LET state == split_state_key(lastCall'.arg)
             action == Lower(lastCall'.agent)
             old == RowOf(q_table, state)
         IN /\ DOMAIN q_table' = DOMAIN q_table \cup {state}
            /\ FollowsRule(RowGet(old, action), RowMax(old), ret'.value,
                           RowGet(q_table'[state], action))
            /\ \A other \in RowKeys(old) \ {action} :
                  RowGet(q_table'[state], other) = RowGet(old, other)
            /\ \A s \in DOMAIN q_table \ {state} : q_table'[s] = q_table[s]]_vars

\* two successful approve votes were recorded for one state while the other
\* state has a row: the second update added the discounted value of the first
C23_SecondUpdateWitness ==
    /\ lastCall.op = "record_outcome"
    /\ ret.status = "ok"
    /\ Len(outcomes) = 2
    /\ DOMAIN q_table = LearnStates
    /\ \A k \in 1 .. 2 : /\ outcomes[k].success
                         /\ outcomes[k].agent_vote = "approve"
                         /\ outcomes[k].proposal_type = "trade"
    /\ RowGet(q_table[<<"normal", "trade", "medium">>], "approve")
          > 2 * TruncDiv(learning_rate * SuccessReward, WeightOne) - 100

(* C24: from a zero-initialised state, after 50 updates with action approve
   and reward 1.0, predict_vote with the exploration rate 0 returns approve
   with a confidence above 0.5. *)
C24_FiftyApprovals ==
    (lastCall.op = "predict_vote" /\ exploration_rate = 0
        /\ Len(outcomes) = TrainUpdates)
    => /\ prediction.action = "approve"
       /\ 2 * prediction.confidence > QOne

\* predict_vote ran with the exploration rate 0 after the 50 updates, on a
\* value of approve that the updates have raised above 4.0
C24_TrainedWitness ==
    /\ Exploited
    /\ exploration_rate = 0
    /\ Len(outcomes) = TrainUpdates
    /\ \A k \in 1 .. Len(outcomes) :
          outcomes[k].agent_vote = "approve" /\ outcomes[k].reward = SuccessReward
    /\ RowGet(q_table[<<"normal", "trade", "medium">>], "approve") > 4 * QOne

(* C25: the Q-table survives a restart: when record_outcome updates a state
   whose row is in the store, the row it writes is the stored row with the
   voted action's value moved by the Q-learning rule and the other two values
   as they were stored, whether or not the process was restarted since the
   row was written. *)
C25_StoreSurvivesRestart ==
    [][(Updated /\ lastCall'.arg \in DOMAIN q_values) =>
         LET key == lastCall'.arg
             action == Lower(lastCall'.agent)
             old == loaded_row(q_values[key])
             new == loaded_row(q_values'[key])
         IN /\ FollowsRule(RowGet(old, action), RowMax(old), ret'.value,
                           RowGet(new, action))
            /\ \A other \in RowKeys(old) \ {action} :
                  RowGet(new, other) = RowGet(old, other)]_vars

\* the step is a failed evaluation by agent a
EvaluationFails(a) ==
    /\ lastCall'.op = "evaluate_proposal"
    /\ lastCall'.agent = a
    /\ lastCall'.arg = "failed"

(* C26: a failure of an agent's proposal evaluation is caught and counts as
   ABSTAIN for that proposal in that cycle: the agent goes on to vote abstain
   on that proposal, stays in its run loop (it does not skip to the error
   sleep), and the step changes nothing of the other agents' run loops, of
   the recorded votes or of the proposals. *)
C26_FailureIsAbstain ==
    [][\A a \in Agents :
         EvaluationFails(a) =>
            /\ ret'.status = "ok"
            /\ run_vote'[a] = "abstain"
            /\ run_pc'[a] = "vote_on_proposal"
            /\ run_index'[a] = run_index[a]
            /\ run_proposals'[a] = run_proposals[a]
            /\ \A b \in Agents \ {a} :
                  /\ run_pc'[b] = run_pc[b]
                  /\ run_proposals'[b] = run_proposals[b]
                  /\ run_index'[b] = run_index[b]
                  /\ run_vote'[b] = run_vote[b]
            /\ UNCHANGED <<chain, ballots>>]_vars

\* an agent's evaluation of proposal 0 has failed while the other agent was
\* about to evaluate the same proposal in its own loop
C26_FailedBesideOtherWitness ==
    \E a \in Agents, b \in Agents :
        /\ a # b
        /\ lastCall = Call("evaluate_proposal", 0, a, "failed")
        /\ run_vote[a] = "abstain"
        /\ run_pc[a] = "vote_on_proposal"
        /\ run_pc[b] = "evaluate_proposal"
        /\ run_proposals[b] = <<0>>

(* C30: two agents running create_proposal at the same time never derive the
   same proposal id: no two agents are between their read of total_proposals
   and their create transaction with the same id in hand. *)
C30_DistinctDerivedIds ==
    \A a \in Agents, b \in Agents :
        (a # b /\ create_pc[a] = "rpc" /\ create_pc[b] = "rpc")
        => next_id[a] # next_id[b]

\* the orders in which three agents can vote
Orders ==
    {order \in [1 .. 3 -> WeightAgents] :
        \A j \in 1 .. 3, k \in 1 .. 3 : j # k => order[j] # order[k]}

\* the proposal with its three ledgers emptied
Unvoted(proposal) ==
    [proposal EXCEPT !.votes_for = EmptyDict, !.votes_against = EmptyDict,
                     !.votes_abstain = EmptyDict]

RECURSIVE Replay(_, _, _, _)
\* the proposal after the voters of `actual` vote again on `proposal`, each its
\* own choice, in the order given, from position k on
Replay(actual, proposal, order, k) ==
    IF k > Len(order) THEN proposal
    ELSE IF LedgersOf(actual, order[k]) = {}
    THEN Replay(actual, proposal, order, k + 1)
    ELSE Replay(actual,
                record_vote(proposal, order[k],
                            ChoiceOfLedger(CHOOSE name \in LedgersOf(actual, order[k]) : TRUE),
                            calculate_vote_weight(order[k], proposal.voting_method)),
                order, k + 1)

\* the tally after `first` and then `second` vote on the proposal with the
\* weights the coalition computes for them
VotedInOrder(proposal, first, choice1, second, choice2) ==
    LET t == tally(record_vote(
                     record_vote(proposal, first, choice1,
                                 calculate_vote_weight(first, proposal.voting_method)),
                     second, choice2,
                     calculate_vote_weight(second, proposal.voting_method)))
    IN <<t.total_for, t.total_against, t.passed>>

(* C27: for distinct agents that each vote once on a proposal, with no change
   of membership or reputation in between, the final tally (total_for,
   total_against, passed) is the same for every order in which the votes
   arrive: the tally of the votes as they arrived equals the tally of the same
   votes cast in each of the six orders of the three agents, and two agents
   who have not voted yet give the same tally whichever of them votes first
   (totals compared in thousandths). *)
C27_OrderIndependentTally ==
    /\ (CalledOn("tally_votes") /\ ret.status = "ok") =>
          \A order \in Orders :
              LET replayed == tally(Replay(proposals[lastCall.pid],
                                           Unvoted(proposals[lastCall.pid]), order, 1))
              IN /\ replayed.total_for = lastTally.total_for
                 /\ replayed.total_against = lastTally.total_against
                 /\ replayed.passed = lastTally.passed
    /\ \A p \in DOMAIN proposals :
          \A a \in members \ Voters(proposals[p]), b \in members \ Voters(proposals[p]) :
              a # b => \A ca \in Choices, cb \in Choices :
                 VotedInOrder(proposals[p], a, ca, b, cb)
                    = VotedInOrder(proposals[p], b, cb, a, ca)

\* the tally of a proposal on which three members of unequal reputation have
\* voted, two for and one against
C27_ThreeVotersWitness ==
    /\ CalledOn("tally_votes")
    /\ ret.status = "ok"
    /\ Cardinality(DOMAIN proposals[0].votes_for) = 2
    /\ Cardinality(DOMAIN proposals[0].votes_against) = 1
    /\ \E a \in members, b \in members : reputation[a] # reputation[b]
    /\ \E a \in DOMAIN proposals[0].votes_for, b \in DOMAIN proposals[0].votes_for :
          proposals[0].votes_for[a] # proposals[0].votes_for[b]

(* C28: a registered agent is never deleted, only deactivated: remove_member
   of an agent leaves the agent's reputation score recorded as it was (so that
   adding the agent again does not start it from the baseline). *)
C28_NeverDeleted ==
    [][(lastCall'.op = "remove_member" /\ lastCall'.agent \in DOMAIN reputation)
       => /\ lastCall'.agent \in DOMAIN reputation'
          /\ reputation'[lastCall'.agent] = reputation[lastCall'.agent]]_vars

\* the sum of all the weights recorded in the proposal's three ledgers
RecordedWeights(proposal) ==
    SumValues(proposal.votes_for) + SumValues(proposal.votes_against)
       + SumValues(proposal.votes_abstain)

(* C29: in a reputation-weighted proposal on which every current member has
   voted (each in one ledger), the recorded weights sum to the member count (up to the truncation
   of each weight to thousandths), whatever add_member, remove_member or
   execute_proposal of another proposal happened between the votes. *)
C29_WeightsSumToCount ==
    \A p \in DOMAIN proposals :
        (/\ proposals[p].voting_method = "reputation_weighted"
         /\ members # {}
         /\ Voters(proposals[p]) = members
         /\ \A m \in members : Cardinality(LedgersOf(proposals[p], m)) = 1)
        => Abs(RecordedWeights(proposals[p]) - Cardinality(members) * WeightOne)
              <= Cardinality(members)

\* the vote direction a final result stands for
DirectionOf(final_result) ==
    IF final_result = "approved" THEN "approve"
    ELSE IF final_result = "rejected" THEN "reject"
    ELSE "none"

(* C31: record_outcome gives the recorded vote the reward +1.0 only when the
   proposal's final result matches the direction of the agent's vote and the
   outcome succeeded, and -0.5 when the outcome failed: no recorded outcome
   whose vote opposed the final result carries the reward +1.0. *)
C31_RewardNeedsMatch ==
    \A j \in 1 .. Len(outcomes) :
        /\ outcomes[j].reward = SuccessReward =>
              /\ outcomes[j].success
              /\ Lower(outcomes[j].agent_vote) = DirectionOf(outcomes[j].final_result)
        /\ ~outcomes[j].success => outcomes[j].reward = FailureReward

(* C32: record_outcome is all-or-nothing: a call that raises leaves the
   outcomes table, the Q-table in memory and the stored Q-values as they
   were. *)
C32_AllOrNothing ==
    [][(lastCall'.op = "record_outcome" /\ ret'.status # "ok") =>
          UNCHANGED <<outcomes, q_table, q_values>>]_vars

\* three times the margin (max Q - mean Q + 1) of a row, in ten-thousandths
TripleMargin(row) == 3 * RowMax(row) - RowSum(row) + 3 * QOne

(* C33: predict_vote returns a confidence within [0, 1]: 0.33 when it
   explores, and when it exploits the margin (max Q - mean Q + 1) / 2 of the
   state's row, clamped to [0, 1] (to the model's resolution, one
   ten-thousandth for each of its two truncations). *)
C33_ConfidenceInRange ==
    lastCall.op = "predict_vote" =>
        /\ prediction.confidence \in 0 .. QOne
        /\ lastCall.agent = "explore" => prediction.confidence = ExploreConfidence
        /\ Exploited =>
              LET row == q_table[split_state_key(lastCall.arg)]
              IN IF TripleMargin(row) >= 6 * QOne THEN prediction.confidence = QOne
                 ELSE IF TripleMargin(row) <= 0 THEN prediction.confidence = 0
                 ELSE Abs(6 * prediction.confidence - TripleMargin(row)) <= 12

\* predict_vote exploited a row with a negative value whose margin is past 1:
\* the confidence is 1.0, the clamp at work
C33_ClampedWitness ==
    /\ Exploited
    /\ LET row == q_table[split_state_key(lastCall.arg)]
       IN /\ TripleMargin(row) > 6 * QOne
          /\ \E key \in RowKeys(row) : RowGet(row, key) < 0
    /\ prediction.confidence = QOne

\* agent a's task is in one of the two sleeps that end a cycle of run
Sleeping(a) == run_pc[a] \in {"sleep", "sleep_error"}

(* C34: BaseAgent.run never ends on its own: once started, whatever fails
   while it fetches, evaluates, votes or analyses, the task reaches the sleep
   that ends the cycle, and from the sleep it starts the next cycle with
   another fetch of the active proposals. *)
C34_RunNeverTerminates ==
    \A a \in Agents :
        /\ (run_pc[a] # "idle") ~> Sleeping(a)
        /\ Sleeping(a) ~> (run_pc[a] = "get_active_proposals")

\* an agent whose vote failed has slept after the error and is at the fetch
\* of its next cycle
C34_CycleAfterErrorWitness ==
    \E a \in Agents :
        /\ run_pc[a] = "get_active_proposals"
        /\ lastCall = Call("sleep", -1, a, "sleep_error")
        /\ run_vote[a] # "none"

\* the step is a vote of agent a that failed: the transaction did not arrive or
\* the program rejected it
VoteFails(a) ==
    /\ lastCall'.op = "vote_on_proposal"
    /\ lastCall'.agent = a
    /\ ret'.status = "Exception"

(* C35: within a cycle of run, a failed vote on one active proposal only ends
   the agent's work on that proposal: the agent goes on to the next active
   proposal of its list, or to analyze_and_decide after the last one, in the
   same cycle. *)
C35_VoteFailureSkipsOne ==
    [][\A a \in Agents :
         VoteFails(a) =>
            /\ run_pc'[a] = run_after(a, run_index[a] + 1)
            /\ run_index'[a] = run_index[a] + 1
            /\ run_proposals'[a] = run_proposals[a]]_vars

\* the step belongs to a call of analyze_and_decide: its listing of the active
\* proposals, a turn of its loop or its return
Analysing == lastCall'.op \in {"analyze_scan", "analyze_and_decide"}

(* C36: the conflict check is advisory: no step of
   ConsensusAgent.analyze_and_decide, whether or not it flags a conflict,
   changes a proposal's votes or executed flag, resolves a proposal or
   creates one; the program's accounts and the coalition's proposals are as
   they were. *)
C36_AnalysisAdvisory ==
    [][Analysing => UNCHANGED <<chain, proposals, sdkProposals, reputation>>]_vars

\* analyze_and_decide has returned after flagging a conflict on a proposal
\* that is still open
C36_FlaggedStillOpenWitness ==
    /\ lastCall = Call("analyze_and_decide", -1, "none", "return")
    /\ \E k \in flagged :
          /\ conflict_detected(AccountOf(k))
          /\ ~AccountOf(k).executed

\* the approval rate for / (for + against) of a proposal, 0 without for and
\* against weight, is at least the proposal's threshold (no division, and no
\* assumption on the sign of the weights)
MeetsThreshold(proposal) ==
    LET total_for == SumValues(proposal.votes_for)
        total_votes == total_for + SumValues(proposal.votes_against)
    IN IF total_votes = 0 THEN 0 >= proposal.required_threshold
       ELSE IF total_votes > 0
       THEN total_for * WeightOne >= proposal.required_threshold * total_votes
       ELSE total_for * WeightOne <= proposal.required_threshold * total_votes

(* C37: a coalition proposal is marked executed only by an execute_proposal
   made while its approval rate meets its required threshold; with a
   threshold above 0, a proposal without approve weight (one without any
   vote included) is not marked executed. *)
C37_ExecutedOnlyIfPassed ==
    [][\A p \in DOMAIN proposals :
         (~proposals[p].executed /\ proposals'[p].executed) =>
            /\ lastCall' = Call("execute_proposal", p, "none", "none")
            /\ MeetsThreshold(proposals[p])
            /\ proposals[p].required_threshold > 0
                  => SumValues(proposals[p].votes_for) # 0]_vars

\* execute_proposal has refused a proposal of a positive threshold whose one
\* approve vote weighs 0.0
C37_ZeroApproveRefusedWitness ==
    /\ CalledOn("execute_proposal")
    /\ ret = Ok(0)
    /\ LET proposal == proposals[lastCall.pid]
       IN /\ ~proposal.executed
          /\ proposal.required_threshold > 0
          /\ DOMAIN proposal.votes_for # {}
          /\ SumValues(proposal.votes_for) = 0

(* C38: in every reachable state of a coalition the agents with a reputation
   entry are exactly its members, so that the weight of a member and the
   update of a member's reputation always find the entry. *)
C38_ReputationDomainIsMembers == DOMAIN reputation = members

\* a member was added after a proposal was executed and changed a reputation:
\* the coalition has both members and a reputation for each
C38_JoinedAfterExecuteWitness ==
    /\ lastCall.op = "add_member"
    /\ members = Agents
    /\ \E p \in DOMAIN proposals : proposals[p].executed
    /\ \E m \in members : reputation[m] # BaselineReputation

\* the active rentals of an agent
ActiveRentalsOf(agent_id) ==
    {key \in DOMAIN active_rentals :
        /\ active_rentals[key].agent_id = agent_id
        /\ active_rentals[key].status = "active"}

(* C39: an agent is rented to at most one renter at a time: after any list_agent
   and rent_agent calls, active_rentals holds at most one active rental of an
   agent, and rent_agent on an agent that has an active rental fails. *)
C39_OneRenterAtATime ==
    /\ [](\A a \in Agents : Cardinality(ActiveRentalsOf(a)) <= 1)
    /\ [][\A a \in Agents :
            (lastCall'.op = "rent_agent" /\ lastCall'.agent = a
                /\ ActiveRentalsOf(a) # {})
            => ret'.status # "ok"]_vars

\* the voters of an SDK proposal whose recorded vote is the given string
SdkVoters(proposal, choice) ==
    {voter \in DOMAIN proposal.votes : proposal.votes[voter] = choice}

\* the status of an SDK proposal by the words of the contract
StatusByContract(proposal) ==
    LET approvers == Cardinality(SdkVoters(proposal, "approve"))
        rejecters == Cardinality(SdkVoters(proposal, "reject"))
    IN CASE proposal.executed -> "executed"
         [] ~proposal.executed /\ proposal.votes = EmptyDict -> "pending"
         [] ~proposal.executed /\ proposal.votes # EmptyDict /\ approvers > rejecters
              -> "approved"
         [] ~proposal.executed /\ proposal.votes # EmptyDict /\ approvers < rejecters
              -> "rejected"
         [] OTHER -> "tied"

(* C40: an SDK Proposal keeps one vote per voter, a voter's new vote replacing
   the earlier one and leaving the other voters' votes alone, and get_status
   returns executed for an executed proposal, otherwise pending exactly when
   no vote is recorded, otherwise approved, rejected or tied as the approve
   votes are more than, fewer than or as many as the reject votes. *)
C40_SdkVotesAndStatus ==
    /\ [][(lastCall'.op = "sdk_vote" /\ ret'.status = "ok") =>
            LET before == sdkProposals[lastCall'.pid].votes
                after == sdkProposals'[lastCall'.pid].votes
            IN /\ DOMAIN after = DOMAIN before \cup {lastCall'.agent}
               /\ after[lastCall'.agent] = lastCall'.arg
               /\ \A voter \in DOMAIN before \ {lastCall'.agent} :
                     after[voter] = before[voter]]_vars
    /\ [](lastCall.op = "get_status" =>
            /\ ret.value = StatusByContract(sdkProposals[lastCall.pid])
            /\ (ret.value = "pending" <=>
                  (~sdkProposals[lastCall.pid].executed
                      /\ DOMAIN sdkProposals[lastCall.pid].votes = {})))

\* get_status returned tied for a proposal with votes, none of them approve or
\* reject
C40_TiedWithoutSidesWitness ==
    /\ lastCall.op = "get_status"
    /\ ret.value = "tied"
    /\ LET proposal == sdkProposals[lastCall.pid]
       IN /\ Cardinality(DOMAIN proposal.votes) = 2
          /\ SdkVoters(proposal, "approve") = {}
          /\ SdkVoters(proposal, "reject") = {}

====
